---- MODULE Spec2Model ----
(***************************************************************************)
(* Model of scripts/01_etl_data.py: the loading of the boundary and the    *)
(* commuting files with their AGS5 identifiers, the UBA station data, the  *)
(* spatial aggregation of station values to administrative units, the IDW  *)
(* gap filling (idw_value) and the tertile classification                  *)
(* (classify_bivariate); and of download_copernicus_dem of                 *)
(* scripts/00_download_data.py.                                            *)
(*                                                                         *)
(* Specifications.  SpecIdw, SpecClassify and SpecNorm run one call of     *)
(* idw_value, of classify_bivariate and of one AGS5 construction.          *)
(* SpecLoad is step 1 of main, SpecComm its steps 2 to 5, Spec its         *)
(* steps 5 to 10 and SpecScenario the same steps on three regions;         *)
(* SpecRun is main from its start to its end or to sys.exit(1), which is   *)
(* pc = "exit".  They share the variables of main.  SpecDem runs one call  *)
(* of download_copernicus_dem.                                             *)
(*                                                                         *)
(* Numbers.  pandas works on float64; the model computes the same          *)
(* expressions exactly, on rationals <<n, d>> (d > 0, reduced).  NaN is    *)
(* the pair <<0, 0>>.  Float rounding is outside the model.                *)
(*                                                                         *)
(* Geometry.  All geometries lie on one line of the projected plane        *)
(* (EPSG:25832, metres): a point is a coordinate, a polygon is a strip     *)
(* given by its two end coordinates.  Coordinates are integers counting    *)
(* 1/GridPerMetre of a metre, so that distances below one metre occur.     *)
(***************************************************************************)
EXTENDS Integers, Sequences, FiniteSets, TLC

VARIABLES
    \* one call of idw_value: its arguments, the rows it kept, what it returned
    idw_pc, idw_target, idw_stations, idw_k, idw_max_km, idw_kept, idw_result

VARIABLES
    \* one call of classify_bivariate: the table handed in, the table returned
    cls_pc, cls_in, cls_out

VARIABLES
    \* main: where it stands, its tables kreise, comm, stations,
    \* stations_with_data, join and no2_mean, the indices the interpolation
    \* loop has still to visit, and the two subsets it exports
    pc, kreise, comm, stations, stations_with_data, join, no2_mean, todo,
    bayern, oberpfalz

main_vars == <<pc, kreise, comm, stations, stations_with_data, join, no2_mean,
               todo, bayern, oberpfalz>>

idw_vars == <<idw_pc, idw_target, idw_stations, idw_k, idw_max_km, idw_kept, idw_result>>

cls_vars == <<cls_pc, cls_in, cls_out>>

VARIABLES
    \* one identifier taken through one of the three places that build an
    \* AGS5: the text astype(str) gives, the place, the AGS5 that results
    nz_pc, nz_raw, nz_path, nz_out

VARIABLES
    \* main, steps 1 and 2: the boundary file as read (the text of its
    \* identifier column, its 'art' column and whether it has one), which
    \* commuting file exists and its rows as read
    bd_raw, bd_has_art, cm_source, cm_raw

VARIABLES
    \* main, steps 1 to 4: the name of the identifier column of the boundary
    \* file, the column names of the Pendler file, whether the UBA API
    \* answers, the tables stations_df() and annualbalances_df() return
    bd_code_name, cm_columns, uba_up, uba_st, uba_ab

VARIABLES
    \* what main has printed in steps 1 to 4: its errors, its warnings and
    \* the counts it reports
    stdout

norm_vars == <<nz_pc, nz_raw, nz_path, nz_out>>

VARIABLES
    \* one call of download_copernicus_dem (00_download_data.py): where it
    \* stands, its argument, the tiles on disk, the loop variables, its
    \* locals, the requests made so far as <<source, tile>>, what it returned
    dem_pc, dem_skip, dem_disk, dem_source, dem_tile, downloaded_count,
    source_worked, source_downloaded, dem_requested, dem_return

load_vars == <<bd_raw, bd_has_art, cm_source, cm_raw,
              bd_code_name, cm_columns, uba_up, uba_st, uba_ab>>

dem_vars == <<dem_pc, dem_skip, dem_disk, dem_source, dem_tile, downloaded_count,
              source_worked, source_downloaded, dem_requested, dem_return>>

vars == <<main_vars, idw_vars, cls_vars, norm_vars, load_vars, dem_vars, stdout>>

\* ------------------------------------------------------------------ bounds
\* coordinate resolution: one metre is GridPerMetre coordinate steps
GridPerMetre == 2
\* longest station table handed to idw_value
MaxStations == 3
\* longest table of drawn values handed to classify_bivariate
MaxRows == 4
\* longest station table main works on
MaxPoints == 2
\* largest k handed to idw_value
MaxK == 2

\* the most units in a boundary file
MaxUnits == 2

\* ------------------------------------------------------- exact arithmetic
NaN == <<0, 0>>

isna(x) == x = NaN

Abs(i) == IF i < 0 THEN -i ELSE i

RECURSIVE GCD(_, _)
GCD(a, b) == IF b = 0 THEN a ELSE GCD(b, a % b)

\* the reduced fraction n/d, d > 0
Rat(n, d) ==
    LET g == GCD(Abs(n), d)
    IN  <<n \div g, d \div g>>

RInt(i) == <<i, 1>>

RAdd(a, b) ==
    LET g == GCD(a[2], b[2])
        l == (a[2] \div g) * b[2]
    IN  Rat(a[1] * (l \div a[2]) + b[1] * (l \div b[2]), l)

RSub(a, b) == RAdd(a, <<-b[1], b[2]>>)

RMul(a, b) ==
    LET g1 == GCD(Abs(a[1]), b[2])
        g2 == GCD(Abs(b[1]), a[2])
    IN  Rat((a[1] \div g1) * (b[1] \div g2), (a[2] \div g2) * (b[2] \div g1))

\* a / b for b > 0
RDiv(a, b) == RMul(a, <<b[2], b[1]>>)

RLe(a, b) == a[1] * b[2] <= b[1] * a[2]

RLt(a, b) == a[1] * b[2] < b[1] * a[2]

RMax(a, b) == IF RLe(a, b) THEN b ELSE a

RECURSIVE RSum(_)
RSum(s) == IF s = <<>> THEN RInt(0) ELSE RAdd(Head(s), RSum(Tail(s)))

\* ------------------------------------------------------------ idw_value
\* metres per kilometre in "max_km * 1000"
MetresPerKm == 1000

\* geometry.distance(target_point), in metres
distance(p, q) == Rat(Abs(p - q), GridPerMetre)

\* stations_gdf.dropna(subset=[value_col])
dropna(gdf, value_col) == SelectSeq(gdf, LAMBDA s : ~isna(s[value_col]))

\* stations_gdf["dist_m"] = stations_gdf.geometry.distance(target_point)
with_dist(gdf, target) ==
    [i \in 1..Len(gdf) |->
        [f \in DOMAIN gdf[i] \cup {"dist_m"} |->
            IF f = "dist_m" THEN distance(gdf[i].pos, target)
            ELSE gdf[i][f]]]

\* a radius test that drops the stations exactly max_km away
within_radius_strict(gdf, max_km) ==
    SelectSeq(gdf, LAMBDA s : RLt(s.dist_m, RMul(max_km, RInt(1000))))

\* a radius test turned round: it keeps what lies beyond max_km
within_radius_outside(gdf, max_km) ==
    SelectSeq(gdf, LAMBDA s : RLe(RMul(max_km, RInt(1000)), s.dist_m))

\* stations_gdf[stations_gdf["dist_m"] <= max_km * 1000]
within_radius(gdf, max_km) ==
    SelectSeq(gdf, LAMBDA s : RLe(s.dist_m, RMul(max_km, RInt(MetresPerKm))))

\* insertion of one row into a table sorted by dist_m, after its equals
RECURSIVE insert_by_dist(_, _)
insert_by_dist(row, sorted) ==
    IF sorted = <<>> THEN <<row>>
    ELSE IF RLt(row.dist_m, Head(sorted).dist_m) THEN <<row>> \o sorted
    ELSE <<Head(sorted)>> \o insert_by_dist(row, Tail(sorted))

\* the table in ascending dist_m, equal distances in their original order
RECURSIVE sort_by_dist(_)
sort_by_dist(gdf) ==
    IF gdf = <<>> THEN <<>>
    ELSE insert_by_dist(gdf[Len(gdf)],
                        sort_by_dist(SubSeq(gdf, 1, Len(gdf) - 1)))

\* the first k rows of the table as it stands, not the k nearest
nsmallest_unsorted(k, gdf) ==
    SubSeq(gdf, 1, IF k < Len(gdf) THEN k ELSE Len(gdf))

\* stations_gdf.nsmallest(k, "dist_m")  (keep='first')
nsmallest(k, gdf) ==
    LET sorted == sort_by_dist(gdf)
    IN  SubSeq(sorted, 1, IF k < Len(sorted) THEN k ELSE Len(sorted))

\* a floor of one millimetre instead of one metre
clip_lower_tiny(d) == RMax(d, Rat(1, 1000))

\* stations_gdf["dist_m"].clip(lower=1.0)
clip_lower(d) == RMax(d, RInt(1))

\* w = 1.0 / (stations_gdf["dist_m"].clip(lower=1.0))
weights(gdf) ==
    [i \in 1..Len(gdf) |-> RDiv(RInt(1), clip_lower(gdf[i].dist_m))]

\* the rows idw_value averages: lines 191..201
kept_stations(target_point, stations_gdf, value_col, k, max_km) ==
    LET valid  == dropna(stations_gdf, value_col)
        inside == within_radius(with_dist(valid, target_point), max_km)
    IN  IF Len(valid) = 0 THEN <<>>
        ELSE IF Len(inside) = 0 THEN <<>>
        ELSE nsmallest(k, inside)

\* idw_value dividing the weighted sum by the number of kept rows
idw_value_by_count(target_point, stations_gdf, value_col, k, max_km) ==
    LET kept == kept_stations(target_point, stations_gdf, value_col, k, max_km)
        w    == weights(kept)
    IN  IF kept = <<>> THEN NaN
        ELSE RDiv(RSum([i \in 1..Len(kept) |-> RMul(w[i], kept[i][value_col])]),
                  RInt(Len(kept)))

\* idw_value without radius and without k: the weighted mean of every row
\* that carries a value
idw_value_all_rows(target_point, stations_gdf, value_col, k, max_km) ==
    LET valid == with_dist(dropna(stations_gdf, value_col), target_point)
        w     == weights(valid)
    IN  IF Len(valid) = 0 THEN NaN
        ELSE RDiv(RSum([i \in 1..Len(valid) |-> RMul(w[i], valid[i][value_col])]),
                  RSum(w))

idw_value(target_point, stations_gdf, value_col, k, max_km) ==
    LET valid  == dropna(stations_gdf, value_col)
        inside == within_radius(with_dist(valid, target_point), max_km)
        kept   == nsmallest(k, inside)
        w      == weights(kept)
        weighted_sum == RSum([i \in 1..Len(kept) |-> RMul(w[i], kept[i][value_col])])
        weight_sum   == RSum(w)
    IN  IF Len(valid) = 0 THEN NaN
        ELSE IF Len(inside) = 0 THEN NaN
        ELSE IF weight_sum = RInt(0) THEN NaN
        ELSE RDiv(weighted_sum, weight_sum)

\* ---------------------------------------------------- classify_bivariate
\* Python's None in the group column
None == "None"

\* column col of a table, as a sequence
column(sf_obj, col) == [i \in 1..Len(sf_obj) |-> sf_obj[i][col]]

\* insertion of one value into an ascending sequence
RECURSIVE insert_value(_, _)
insert_value(v, sorted) ==
    IF sorted = <<>> THEN <<v>>
    ELSE IF RLe(v, Head(sorted)) THEN <<v>> \o sorted
    ELSE <<Head(sorted)>> \o insert_value(v, Tail(sorted))

RECURSIVE sort_values(_)
sort_values(values) ==
    IF values = <<>> THEN <<>>
    ELSE insert_value(Head(values), sort_values(Tail(values)))

\* a quantile read at position n * q, one order statistic too far
quantile_off_by_one(values, q) ==
    LET present == sort_values(SelectSeq(values, LAMBDA v : ~isna(v)))
        n       == Len(present)
        lo      == (n * q[1]) \div q[2]
    IN  IF n = 0 THEN NaN
        ELSE present[IF lo + 1 < n THEN lo + 1 ELSE n]

\* Series.quantile(q, interpolation='linear'): NaN skipped; at the virtual
\* index h = (n - 1) * q the value present[lo] + (h - lo) * (present[lo + 1]
\* - present[lo]), counting order statistics from 0
quantile(values, q) ==
    LET present == sort_values(SelectSeq(values, LAMBDA v : ~isna(v)))
        n       == Len(present)
        lo      == ((n - 1) * q[1]) \div q[2]
        frac    == Rat(((n - 1) * q[1]) % q[2], q[2])
    IN  IF n = 0 THEN NaN
        ELSE IF frac = RInt(0) THEN present[lo + 1]
        ELSE RAdd(present[lo + 1],
                  RMul(frac, RSub(present[lo + 2], present[lo + 1])))

\* quantile([0, 1/3, 2/3, 1.0], interpolation='linear')
quantiles(values) ==
    <<quantile(values, Rat(0, 1)), quantile(values, Rat(1, 3)),
      quantile(values, Rat(2, 3)), quantile(values, Rat(1, 1))>>

\* get_bin with the boundary value sent to the upper bin
get_bin_strict(val, q) ==
    IF isna(val) THEN NaN
    ELSE IF RLt(val, q[2]) THEN RInt(1)
    ELSE IF RLt(val, q[3]) THEN RInt(2)
    ELSE RInt(3)

\* get_bin without its test for NaN: a comparison with NaN is false
get_bin_no_isna(val, q) ==
    IF ~isna(val) /\ RLe(val, q[2]) THEN RInt(1)
    ELSE IF ~isna(val) /\ RLe(val, q[3]) THEN RInt(2)
    ELSE RInt(3)

\* get_bin(val, quantiles); quantiles.iloc[1] is q[2], quantiles.iloc[2] is q[3]
get_bin(val, q) ==
    IF isna(val) THEN NaN
    ELSE IF RLe(val, q[2]) THEN RInt(1)
    ELSE IF RLe(val, q[3]) THEN RInt(2)
    ELSE RInt(3)

\* str(int(b)) for a bin
bin_str(b) == CASE b = RInt(1) -> "1" [] b = RInt(2) -> "2" [] b = RInt(3) -> "3"

\* the group string with the bin of x first and the bin of y second
group_of_x_first(x_bin, y_bin) ==
    IF ~isna(x_bin) /\ ~isna(y_bin)
    THEN bin_str(x_bin) \o "-" \o bin_str(y_bin)
    ELSE None

\* f"{int(row['y_bin'])}-{int(row['x_bin'])}", or None
group_of(x_bin, y_bin) ==
    IF ~isna(x_bin) /\ ~isna(y_bin)
    THEN bin_str(y_bin) \o "-" \o bin_str(x_bin)
    ELSE None

\* the table with the columns x_bin, y_bin and group added
classify_bivariate(sf_obj, x_col, y_col) ==
    LET xq == quantiles(column(sf_obj, x_col))
        yq == quantiles(column(sf_obj, y_col))
    IN  [i \in 1..Len(sf_obj) |->
            LET x_bin == get_bin(sf_obj[i][x_col], xq)
                y_bin == get_bin(sf_obj[i][y_col], yq)
            IN  [f \in DOMAIN sf_obj[i] \cup {"x_bin", "y_bin", "group"} |->
                    CASE f = "x_bin" -> x_bin
                      [] f = "y_bin" -> y_bin
                      [] f = "group" -> group_of(x_bin, y_bin)
                      [] OTHER -> sf_obj[i][f]]]

\* ------------------------------------------------------- main: the tables
\* An identifier is a sequence of characters.  The value of a digit; for
\* the other characters of the model their place relative to "0" in the
\* character order.
digit_value(c) ==
    CASE c = "0" -> 0 [] c = "1" -> 1 [] c = "2" -> 2 [] c = "3" -> 3
      [] c = "4" -> 4 [] c = "5" -> 5 [] c = "6" -> 6 [] c = "7" -> 7
      [] c = "8" -> 8 [] c = "9" -> 9
      [] c = "\"" -> -14 [] c = "," -> -4 [] c = "-" -> -3 [] c = "." -> -2
      [] c = "a" -> 49 [] c = "n" -> 62

\* str order of two identifiers
RECURSIVE str_lt(_, _)
str_lt(a, b) ==
    IF b = <<>> THEN FALSE
    ELSE IF a = <<>> THEN TRUE
    ELSE IF Head(a) = Head(b) THEN str_lt(Tail(a), Tail(b))
    ELSE digit_value(Head(a)) < digit_value(Head(b))

\* str.startswith(prefix)
startswith(code, prefix) ==
    Len(prefix) <= Len(code) /\ SubSeq(code, 1, Len(prefix)) = prefix

\* the concatenation of a sequence of tables
RECURSIVE concat(_)
concat(tables) ==
    IF tables = <<>> THEN <<>> ELSE Head(tables) \o concat(Tail(tables))

\* a row with one more column (or one column overwritten)
with_column(row, col, value) ==
    [f \in DOMAIN row \cup {col} |-> IF f = col THEN value ELSE row[f]]

\* the first value that is not NaN instead of the mean
first_value(values) ==
    LET present == SelectSeq(values, LAMBDA v : ~isna(v))
    IN  IF present = <<>> THEN NaN ELSE present[1]

\* Series.mean(): the mean of the values that are not NaN, NaN if none
mean(values) ==
    LET present == SelectSeq(values, LAMBDA v : ~isna(v))
    IN  IF present = <<>> THEN NaN
        ELSE RDiv(RSum(present), RInt(Len(present)))

\* the keys of a table in ascending order
RECURSIVE sorted_keys(_)
sorted_keys(keys) ==
    IF keys = {} THEN <<>>
    ELSE LET least == CHOOSE a \in keys : \A b \in keys : ~str_lt(b, a)
         IN  <<least>> \o sorted_keys(keys \ {least})

\* table.groupby("AGS5")[col].mean().reset_index(): one row per identifier,
\* identifiers ascending
groupby_mean(table, col) ==
    LET keys == sorted_keys({table[i].AGS5 : i \in 1..Len(table)})
    IN  [g \in 1..Len(keys) |->
            [f \in {"AGS5", col} |->
                IF f = "AGS5" THEN keys[g]
                ELSE mean(column(SelectSeq(table, LAMBDA r : r.AGS5 = keys[g]), col))]]

\* left.merge(right[["AGS5", col]], on="AGS5", how="left"): the rows of left
\* in their order, each once per matching row of right, col NaN without match
merge_left(left, right, col) ==
    concat([i \in 1..Len(left) |->
        LET matches == SelectSeq(right, LAMBDA r : r.AGS5 = left[i].AGS5)
        IN  IF matches = <<>> THEN <<with_column(left[i], col, NaN)>>
            ELSE [m \in 1..Len(matches) |-> with_column(left[i], col, matches[m][col])]])

\* a predicate that also takes the points on the polygon's boundary
touches_or_within(pos, geometry) == geometry.lo <= pos /\ pos <= geometry.hi

\* predicate="within": the point lies in the interior of the polygon
within(pos, geometry) == geometry.lo < pos /\ pos < geometry.hi

\* gpd.sjoin(left[["geometry", "no2_value"]], right[["AGS5", "geometry"]],
\* predicate="within"): one row per pair (point, polygon) that matches
sjoin(left, right) ==
    concat([i \in 1..Len(left) |->
        concat([j \in 1..Len(right) |->
            IF within(left[i].pos, right[j].geometry)
            THEN <<[pos |-> left[i].pos, no2_value |-> left[i].no2_value,
                    index_left |-> i, index_right |-> j, AGS5 |-> right[j].AGS5]>>
            ELSE <<>>])])

\* the lower end of a strip, a point on its boundary
representative_point_lo(geometry) == geometry.lo

\* geometry.representative_point(): for a strip, its centre
representative_point(geometry) == (geometry.lo + geometry.hi) \div 2

\* main does not run
MainIdle ==
    /\ pc = "idle" /\ kreise = <<>> /\ comm = <<>> /\ stations = <<>>
    /\ stations_with_data = <<>> /\ join = <<>> /\ no2_mean = <<>>
    /\ todo = <<>> /\ bayern = <<>> /\ oberpfalz = <<>>

\* ------------------------------------------------- main: the identifiers
\* Series.str methods on one text.  str.replace is the replacement of a
\* literal (pandas 2, regex=False); zfill is applied to texts without sign.

\* str[:4], one character short of the Kreis code
str_slice_short(s, n) == SubSeq(s, 1, IF Len(s) < n - 1 THEN Len(s) ELSE n - 1)

\* str[:n]
str_slice(s, n) == SubSeq(s, 1, IF Len(s) < n THEN Len(s) ELSE n)

\* str.zfill(width)
zfill(s, width) ==
    IF Len(s) >= width THEN s ELSE [i \in 1..(width - Len(s)) |-> "0"] \o s

\* str.strip(chars) for one character
RECURSIVE lstrip(_, _)
lstrip(s, c) ==
    IF s # <<>> /\ Head(s) = c THEN lstrip(Tail(s), c) ELSE s

RECURSIVE rstrip(_, _)
rstrip(s, c) ==
    IF s # <<>> /\ s[Len(s)] = c THEN rstrip(SubSeq(s, 1, Len(s) - 1), c) ELSE s

strip(s, c) == rstrip(lstrip(s, c), c)

\* str.replace(old, ''): every occurrence of old, from the left
RECURSIVE remove_all(_, _)
remove_all(s, old) ==
    IF s = <<>> THEN <<>>
    ELSE IF startswith(s, old) THEN remove_all(SubSeq(s, Len(old) + 1, Len(s)), old)
    ELSE <<Head(s)>> \o remove_all(Tail(s), old)

\* AGS5 of a boundary unit: astype(str).str[:5].str.zfill(5), and once more
\* .str.zfill(5) after the filters
boundary_ags5(raw) == zfill(zfill(str_slice(raw, 5), 5), 5)

\* AGS5 of a row of commuting_indicator.csv: astype(str).str.zfill(5)
comm_ags5(raw) == zfill(raw, 5)

\* AGS8 of a row of the Pendler file
pendler_ags8(raw) == zfill(remove_all(strip(raw, "\""), <<".", "0">>), 8)

\* AGS5 of a row of the Pendler file: AGS8.str[:5], and .str.zfill(5) on the
\* grouped table
pendler_ags5(raw) == zfill(str_slice(pendler_ags8(raw), 5), 5)

\* the AGS5 built at place path
normalize(path, raw) ==
    CASE path = "boundary" -> boundary_ags5(raw)
      [] path = "comm" -> comm_ags5(raw)
      [] path = "pendler" -> pendler_ags5(raw)

\* no identifier is being taken through a place
NormIdle == nz_pc = "idle" /\ nz_raw = <<>> /\ nz_path = "none" /\ nz_out = <<>>

\* steps 1 and 2 of main are not recorded
LoadIdle ==
    /\ bd_raw = <<>> /\ bd_has_art = FALSE /\ cm_source = "none" /\ cm_raw = <<>>
    /\ bd_code_name = "AGS5" /\ cm_columns = <<>> /\ uba_up = TRUE
    /\ uba_st = <<>> /\ uba_ab = <<>>
    /\ stdout = <<>>

\* no call of download_copernicus_dem is under way
DemIdle ==
    /\ dem_pc = "idle" /\ dem_skip = FALSE /\ dem_disk = {}
    /\ dem_source = 0 /\ dem_tile = 0
    /\ downloaded_count = 0 /\ source_worked = FALSE /\ source_downloaded = 0
    /\ dem_requested = {} /\ dem_return = "unset"

\* ------------------------------------------- one call of idw_value
\* station and target coordinates: 0 m, 0.5 m, 3 m, 5 m and 0 m, 1 m
StationCoords == {0, 1, 3 * GridPerMetre, 5 * GridPerMetre}

TargetCoords == {0, GridPerMetre}

\* measured values; a station without a measurement carries NaN
StationValues == {RInt(10), RInt(30), NaN}

\* max_km: 3 m and the default 80 km
Radii == {Rat(3, 1000), RInt(80)}

StationRows == [pos : StationCoords, val : StationValues]

StationTables == UNION {[1..n -> StationRows] : n \in 0..MaxStations}

\* classify_bivariate is not called
ClsIdle == cls_pc = "idle" /\ cls_in = <<>> /\ cls_out = <<>>

InitIdw ==
    /\ NormIdle
    /\ LoadIdle
    /\ MainIdle
    /\ ClsIdle
    /\ DemIdle
    /\ idw_pc = "ready"
    /\ idw_target \in TargetCoords
    /\ idw_stations \in StationTables
    /\ idw_k = 0
    /\ idw_max_km = NaN
    /\ idw_kept = <<>>
    /\ idw_result = NaN

IdwCall(k, max_km) ==
    /\ idw_pc = "ready"
    /\ idw_pc' = "done"
    /\ idw_k' = k
    /\ idw_max_km' = max_km
    /\ idw_kept' = kept_stations(idw_target, idw_stations, "val", k, max_km)
    /\ idw_result' = idw_value(idw_target, idw_stations, "val", k, max_km)
    /\ UNCHANGED <<norm_vars, load_vars, dem_vars, stdout>>
    /\ UNCHANGED <<idw_target, idw_stations, cls_vars, main_vars>>

NextIdw == \E k \in 1..MaxK, max_km \in Radii : IdwCall(k, max_km)

SpecIdw == InitIdw /\ [][NextIdw]_vars

\* ------------------------------------- one call of classify_bivariate
\* idw_value is not called
IdwIdle ==
    /\ idw_pc = "idle" /\ idw_target = 0 /\ idw_stations = <<>> /\ idw_k = 0
    /\ idw_max_km = NaN /\ idw_kept = <<>> /\ idw_result = NaN

\* values of the two fields; an absent value is NaN
XValues == {RInt(1), RInt(2), RInt(4), NaN}

YValues == {RInt(3), NaN}

ClassRows == [x : XValues, y : YValues]

\* the nine values 1..9 in field x, field y present in every row
NineRows == [i \in 1..9 |-> [x |-> RInt(i), y |-> RInt(1)]]

ClassTables == UNION {[1..n -> ClassRows] : n \in 0..MaxRows} \cup {NineRows}

InitClassify ==
    /\ NormIdle
    /\ LoadIdle
    /\ MainIdle
    /\ IdwIdle
    /\ DemIdle
    /\ cls_pc = "ready"
    /\ cls_in \in ClassTables
    /\ cls_out = <<>>

ClassifyCall ==
    /\ cls_pc = "ready"
    /\ cls_pc' = "done"
    /\ cls_out' = classify_bivariate(cls_in, "x", "y")
    /\ UNCHANGED <<norm_vars, load_vars, dem_vars, stdout>>
    /\ UNCHANGED <<cls_in, idw_vars, main_vars>>

NextClassify == ClassifyCall

SpecClassify == InitClassify /\ [][NextClassify]_vars

\* ------------------------------------------------------ main, steps 5 to 10
\* idw_value(pt, stations_with_data, "no2_value", k=5, max_km=80)
K_NEAREST == 5

MAX_KM == 80

\* coordinate steps per kilometre
Km == 1000 * GridPerMetre

Strip(lo_km, hi_km) == [lo |-> lo_km * Km, hi |-> hi_km * Km]

\* the boundary geometries: two adjacent units; the same with a third unit
\* far away; two units that overlap
Layouts ==
    {<<Strip(0, 40), Strip(40, 80)>>,
     <<Strip(0, 40), Strip(40, 80), Strip(200, 240)>>,
     <<Strip(0, 40), Strip(20, 60)>>}

\* identifiers as the boundary loading leaves them: five characters; the
\* loading removes duplicates only for Gemeinde-level data with an 'art' column
AGS5Codes == {<<"0", "9", "1", "6", "1">>, <<"0", "9", "3", "6", "2">>}

KreiseTables ==
    UNION {[1..Len(l) -> [AGS5 : AGS5Codes, geometry : {l[i] : i \in 1..Len(l)}]]
            : l \in Layouts}

\* kreise: one row per geometry of a layout, in the layout's order
IsKreiseTable(t) ==
    \E l \in Layouts :
        Len(t) = Len(l) /\ \A i \in 1..Len(l) : t[i].geometry = l[i]

\* comm: an identifier per unit; one unit without a record; two records
\* for one identifier
CommTables ==
    {<<[AGS5 |-> <<"0", "9", "1", "6", "1">>, commute_value |-> RInt(5)],
       [AGS5 |-> <<"0", "9", "3", "6", "2">>, commute_value |-> RInt(7)]>>,
     <<[AGS5 |-> <<"0", "9", "1", "6", "1">>, commute_value |-> RInt(5)]>>,
     <<[AGS5 |-> <<"0", "9", "1", "6", "1">>, commute_value |-> RInt(5)],
       [AGS5 |-> <<"0", "9", "1", "6", "1">>, commute_value |-> RInt(7)]>>}

\* stations at 30 km, 40 km and 80 km, with a value of 10, of 20 or NaN
PointRows == [pos : {30 * Km, 40 * Km, 80 * Km}, no2_value : {RInt(10), RInt(20), NaN}]

PointTables == UNION {[1..n -> PointRows] : n \in 0..MaxPoints}

Init ==
    /\ NormIdle
    /\ LoadIdle
    /\ IdwIdle
    /\ ClsIdle
    /\ DemIdle
    /\ pc = "loaded"
    /\ kreise \in {t \in KreiseTables : IsKreiseTable(t)}
    /\ comm \in CommTables
    /\ stations \in PointTables
    /\ stations_with_data = <<>>
    /\ join = <<>>
    /\ no2_mean = <<>>
    /\ todo = <<>>
    /\ bayern = <<>>
    /\ oberpfalz = <<>>

\* 5. kreise.merge(comm[["AGS5", "commute_value"]], on="AGS5", how="left")
MergeCommute ==
    /\ pc = "loaded"
    /\ pc' = "merged"
    /\ kreise' = merge_left(kreise, comm, "commute_value")
    /\ UNCHANGED <<norm_vars, load_vars, dem_vars, stdout>>
    /\ UNCHANGED <<comm, stations, stations_with_data, join, no2_mean, todo,
                   bayern, oberpfalz, idw_vars, cls_vars>>

\* every row of the table with col set to value
set_column(table, col, value) ==
    [i \in 1..Len(table) |-> with_column(table[i], col, value)]

\* 6. station-in-polygon mean where possible
Aggregate ==
    /\ pc = "merged"
    /\ pc' = "aggregated"
    /\ stations_with_data' = dropna(stations, "no2_value")
    /\ IF Len(stations_with_data') > 0
       THEN /\ join' = sjoin(stations_with_data', kreise)
            /\ IF Len(join') > 0
               THEN /\ no2_mean' = groupby_mean(join', "no2_value")
                    /\ kreise' = merge_left(kreise, no2_mean', "no2_value")
               ELSE /\ no2_mean' = no2_mean
                    /\ kreise' = set_column(kreise, "no2_value", NaN)
       ELSE /\ join' = join
            /\ no2_mean' = no2_mean
            /\ kreise' = set_column(kreise, "no2_value", NaN)
    /\ UNCHANGED <<norm_vars, load_vars, dem_vars, stdout>>
    /\ UNCHANGED <<comm, stations, todo, bayern, oberpfalz, idw_vars, cls_vars>>

\* every index of the table
mask_all_index(table) == [i \in 1..Len(table) |-> i]

\* kreise[mask_missing].index, in the order of the table
mask_missing_index(table) ==
    SelectSeq([i \in 1..Len(table) |-> i], LAMBDA i : isna(table[i].no2_value))

\* 7. "if n_missing > 0 and len(stations_with_data) > 0": enter the loop
StartInterpolation ==
    /\ pc = "aggregated"
    /\ IF Len(mask_missing_index(kreise)) > 0 /\ Len(stations_with_data) > 0
       THEN pc' = "idw" /\ todo' = mask_missing_index(kreise)
       ELSE pc' = "interpolated" /\ todo' = todo
    /\ UNCHANGED <<norm_vars, load_vars, dem_vars, stdout>>
    /\ UNCHANGED <<kreise, comm, stations, stations_with_data, join, no2_mean,
                   bayern, oberpfalz, idw_vars, cls_vars>>

\* the loop body with a reference set that grows: the units that carry a
\* value count as stations at their representative points
interpolate_row_feedback(table, idx, reference) ==
    LET pt == representative_point(table[idx].geometry)
        more == [i \in 1..Len(table) |->
                    [pos |-> representative_point(table[i].geometry),
                     no2_value |-> table[i].no2_value]]
    IN  [table EXCEPT ![idx].no2_value =
            idw_value(pt, reference \o more, "no2_value", K_NEAREST, RInt(MAX_KM))]

\* the loop body for index idx:
\* kreise.loc[idx, "no2_value"] = idw_value(pt, stations_with_data, ...)
interpolate_row(table, idx, reference) ==
    LET pt == representative_point(table[idx].geometry)
    IN  [table EXCEPT ![idx].no2_value =
            idw_value(pt, reference, "no2_value", K_NEAREST, RInt(MAX_KM))]

\* one pass of the loop
InterpolateOne ==
    /\ pc = "idw"
    /\ todo # <<>>
    /\ kreise' = interpolate_row(kreise, Head(todo), stations_with_data)
    /\ todo' = Tail(todo)
    /\ pc' = IF Tail(todo) = <<>> THEN "interpolated" ELSE "idw"
    /\ UNCHANGED <<norm_vars, load_vars, dem_vars, stdout>>
    /\ UNCHANGED <<comm, stations, stations_with_data, join, no2_mean,
                   bayern, oberpfalz, idw_vars, cls_vars>>

\* 8. kreise = classify_bivariate(kreise, "no2_value", "commute_value")
Classify ==
    /\ pc = "interpolated"
    /\ pc' = "classified"
    /\ kreise' = classify_bivariate(kreise, "no2_value", "commute_value")
    /\ UNCHANGED <<norm_vars, load_vars, dem_vars, stdout>>
    /\ UNCHANGED <<comm, stations, stations_with_data, join, no2_mean, todo,
                   bayern, oberpfalz, idw_vars, cls_vars>>

\* 9. and 10. the subsets by identifier prefix, exported
Export ==
    /\ pc = "classified"
    /\ pc' = "exported"
    /\ bayern' = SelectSeq(kreise, LAMBDA r : startswith(r.AGS5, <<"0", "9">>))
    /\ oberpfalz' = SelectSeq(kreise, LAMBDA r : startswith(r.AGS5, <<"0", "9", "3">>))
    /\ UNCHANGED <<norm_vars, load_vars, dem_vars, stdout>>
    /\ UNCHANGED <<kreise, comm, stations, stations_with_data, join, no2_mean,
                   todo, idw_vars, cls_vars>>

Next ==
    \/ MergeCommute
    \/ Aggregate
    \/ StartInterpolation
    \/ InterpolateOne
    \/ Classify
    \/ Export

Spec == Init /\ [][Next]_vars

\* ------------------------------------- main, steps 5 to 10: three regions
\* Region A with two stations inside it (10 and 20), region B, 6 km wide,
\* with no station inside it and a station of value 30 at 5 km from its
\* centre, region C with no station within MAX_KM.  B lies next to A or
\* far from it.
ScenarioCodes ==
    <<<<"0", "9", "1", "6", "1">>, <<"0", "9", "3", "6", "2">>,
      <<"0", "9", "4", "6", "2">>>>

\* comm with one record per region
ScenarioComm ==
    {[i \in 1..3 |-> [AGS5 |-> ScenarioCodes[i], commute_value |-> RInt(v[i])]]
        : v \in {<<5, 7, 9>>, <<7, 7, 5>>}}

ScenarioKreise(b) ==
    <<[AGS5 |-> ScenarioCodes[1], geometry |-> Strip(0, 40)],
      [AGS5 |-> ScenarioCodes[2], geometry |-> Strip(b, b + 6)],
      [AGS5 |-> ScenarioCodes[3], geometry |-> Strip(300, 340)]>>

ScenarioStations(a, b, off) ==
    <<[pos |-> a[1] * Km, no2_value |-> RInt(10)],
      [pos |-> a[2] * Km, no2_value |-> RInt(20)],
      [pos |-> (b + 3 + off) * Km, no2_value |-> RInt(30)]>>

InitScenario ==
    /\ NormIdle
    /\ LoadIdle
    /\ IdwIdle
    /\ ClsIdle
    /\ DemIdle
    /\ pc = "loaded"
    /\ \E b \in {50, 130}, a \in {<<10, 30>>, <<30, 10>>, <<20, 20>>}, off \in {-5, 5} :
          /\ kreise = ScenarioKreise(b)
          /\ stations = ScenarioStations(a, b, off)
    /\ comm \in ScenarioComm
    /\ stations_with_data = <<>>
    /\ join = <<>>
    /\ no2_mean = <<>>
    /\ todo = <<>>
    /\ bayern = <<>>
    /\ oberpfalz = <<>>

SpecScenario == InitScenario /\ [][Next]_vars

\* ------------------------------------------- one identifier, one place
\* Kreis codes (5 digits): two of Bayern, one of another Land
KreisCodes ==
    { <<"0", "9", "1", "6", "1">>, <<"0", "9", "3", "6", "2">>,
      <<"1", "4", "5", "1", "1">> }

\* the last three digits of a Gemeinde code (8 digits)
GemeindeSuffixes == { <<"0", "0", "0">>, <<"0", "0", "1">> }

\* the official codes: of a Kreis, of a Gemeinde
OfficialCodes == KreisCodes \cup {k \o g : k \in KreisCodes, g \in GemeindeSuffixes}

\* how a file carries a code: as text, as an integer (the leading zero is
\* lost), as a float (the integer followed by .0), as text in quotes
Forms == {"str", "int", "float", "quoted"}

serialize(code, form) ==
    CASE form = "str" -> code
      [] form = "int" -> lstrip(code, "0")
      [] form = "float" -> lstrip(code, "0") \o <<".", "0">>
      [] form = "quoted" -> <<"\"">> \o code \o <<"\"">>

\* what astype(str) gives for an empty text and for a missing value
InvalidRaws == { <<>>, <<"n", "a", "n">> }

RawCodes == {serialize(c, f) : c \in OfficialCodes, f \in Forms} \cup InvalidRaws

Paths == {"boundary", "comm", "pendler"}

InitNorm ==
    /\ LoadIdle
    /\ MainIdle
    /\ IdwIdle
    /\ ClsIdle
    /\ DemIdle
    /\ nz_pc = "ready"
    /\ nz_raw \in RawCodes
    /\ nz_path \in Paths
    /\ nz_out = <<>>

NormalizeCall ==
    /\ nz_pc = "ready"
    /\ nz_out' = normalize(nz_path, nz_raw)
    /\ nz_pc' = "done"
    /\ UNCHANGED <<nz_raw, nz_path, load_vars, main_vars, idw_vars, cls_vars, dem_vars, stdout>>

NextNorm == NormalizeCall

SpecNorm == InitNorm /\ [][NextNorm]_vars

\* ------------------------------------------------------- main, step 1
\* the values of the 'art' column, and those main takes for Kreis level
Arts == {"Kreis", "Gemeinde"}

kreis_types ==
    {"Kreis / kreisfreie Stadt", "Kreis", "Landkreis", "Kreisfreie Stadt", "Stadtkreis"}

\* the identifier column of the boundary file after astype(str): Kreis and
\* Gemeinde codes of Bayern and a Kreis code of another Land, as text and
\* as integers
BoundaryCodes ==
    { <<"0", "9", "1", "6", "1">>, <<"0", "9", "3", "6", "2">>,
      <<"0", "9", "1", "6", "1", "0", "0", "0">>,
      <<"0", "9", "1", "6", "1", "0", "0", "1">>,
      <<"1", "4", "5", "1", "1">> }

BoundaryRaws == {serialize(c, f) : c \in BoundaryCodes, f \in {"str", "int"}}

\* the i-th unit of the file is the strip from 40(i-1) km to 40i km
UnitGeometry(i) == Strip(40 * (i - 1), 40 * i)

BoundaryFiles ==
    UNION { [1..n -> [code : BoundaryRaws, art : Arts]] : n \in 1..MaxUnits }

\* the name of the column of the boundary file that holds the codes: the
\* names main looks for and one it does not know
BoundaryCodeNames == {"AGS5", "ags", "rs", "AGS", "KREISE", "KREIS", "RS", "gen"}

\* list(kreise.columns) as read
boundary_columns(code_name, has_art) ==
    <<code_name>> \o (IF has_art THEN <<"art">> ELSE <<>>) \o <<"geometry">>

\* col in columns
has_column(columns, col) == \E i \in 1..Len(columns) : columns[i] = col

\* the first name of a list of names that is a column, None if none is
RECURSIVE first_column_of(_, _)
first_column_of(names, columns) ==
    IF names = <<>> THEN None
    ELSE IF has_column(columns, Head(names)) THEN Head(names)
    ELSE first_column_of(Tail(names), columns)

\* the first column of the table, whatever its name
id_column_or_first(columns) == columns[1]

\* the column main takes the codes from: "AGS5", else "ags", "rs", "AGS",
\* else the first of "KREISE", "KREIS", "RS"; None when there is none
id_column(columns) ==
    first_column_of(<<"AGS5", "ags", "rs", "AGS", "KREISE", "KREIS", "RS">>, columns)

\* one line main prints, with the values it reports
printed(msg, arg) == [msg |-> msg, arg |-> arg]

InitLoad ==
    /\ NormIdle
    /\ IdwIdle
    /\ ClsIdle
    /\ DemIdle
    /\ pc = "start"
    /\ bd_raw \in BoundaryFiles
    /\ bd_has_art \in BOOLEAN
    /\ bd_code_name \in BoundaryCodeNames
    /\ cm_source = "none" /\ cm_raw = <<>> /\ cm_columns = <<>>
    /\ uba_up = TRUE /\ uba_st = <<>> /\ uba_ab = <<>>
    /\ stdout = <<>>
    /\ kreise = <<>> /\ comm = <<>> /\ stations = <<>>
    /\ stations_with_data = <<>> /\ join = <<>> /\ no2_mean = <<>>
    /\ todo = <<>> /\ bayern = <<>> /\ oberpfalz = <<>>

\* the rows of a table whose index is in keep, in the order of the table
select_rows(table, keep) ==
    LET idx == SelectSeq([i \in 1..Len(table) |-> i], LAMBDA i : i \in keep)
    IN  [j \in 1..Len(idx) |-> table[idx[j]]]

\* drop_duplicates(subset=["AGS5"], keep="first")
drop_duplicates(table) ==
    select_rows(table,
                {i \in 1..Len(table) :
                    \A j \in 1..(i - 1) : table[j].AGS5 # table[i].AGS5})

\* the file with its AGS5 column: astype(str).str[:5].str.zfill(5)
with_ags5(file, has_art) ==
    [i \in 1..Len(file) |->
        IF has_art
        THEN [AGS5 |-> zfill(str_slice(file[i].code, 5), 5),
              art |-> file[i].art, geometry |-> UnitGeometry(i)]
        ELSE [AGS5 |-> zfill(str_slice(file[i].code, 5), 5),
              geometry |-> UnitGeometry(i)]]

\* kreise[bayern_mask] when the mask is not all true
bayern_filter(table) ==
    IF \A i \in 1..Len(table) : startswith(table[i].AGS5, <<"0", "9">>)
    THEN table
    ELSE select_rows(table,
                     {i \in 1..Len(table) : startswith(table[i].AGS5, <<"0", "9">>)})

\* the filter on the 'art' column
art_filter(table, has_art) ==
    IF ~has_art THEN table
    ELSE IF \E i \in 1..Len(table) : table[i].art \in kreis_types
    THEN select_rows(table, {i \in 1..Len(table) : table[i].art \in kreis_types})
    ELSE drop_duplicates(table)

\* step 1 of main from the read file on
load_boundaries(file, has_art) ==
    LET filtered == art_filter(bayern_filter(with_ags5(file, has_art)), has_art)
    IN  [i \in 1..Len(filtered) |->
            [filtered[i] EXCEPT !.AGS5 = zfill(filtered[i].AGS5, 5)]]

\* 1. the boundaries; without a column of codes main prints the columns
\* of the file and ends by sys.exit(1)
LoadBoundaries ==
    /\ pc = "start"
    /\ LET columns == boundary_columns(bd_code_name, bd_has_art)
       IN  IF id_column(columns) = None
           THEN /\ pc' = "exit"
                /\ stdout' = stdout \o
                     <<printed("ERROR: Could not find AGS/RS column in boundaries", <<>>),
                       printed("Available columns", columns)>>
                /\ kreise' = kreise
           ELSE /\ pc' = "boundaries_loaded"
                /\ stdout' = stdout
                /\ kreise' = load_boundaries(bd_raw, bd_has_art)
    /\ UNCHANGED <<comm, stations, stations_with_data, join, no2_mean, todo,
                   bayern, oberpfalz, load_vars, norm_vars, idw_vars, cls_vars, dem_vars>>

NextLoad == LoadBoundaries

SpecLoad == InitLoad /\ [][NextLoad]_vars

\* ------------------------------------------------- main, steps 2 and 5
\* the most rows in a commuting file
MaxRecords == 2

Digits == {"0", "1", "2", "3", "4", "5", "6", "7", "8", "9"}

\* the integer written by a text of digits
RECURSIVE int_of(_)
int_of(s) ==
    IF s = <<>> THEN 0
    ELSE 10 * int_of(SubSeq(s, 1, Len(s) - 1)) + digit_value(s[Len(s)])

RECURSIVE power_of_ten(_)
power_of_ten(n) == IF n = 0 THEN 1 ELSE 10 * power_of_ten(n - 1)

\* pd.to_numeric(text.replace(",", "."), errors="coerce") for texts of
\* digits with at most one separator between digits; any other text is NaN
to_numeric(text) ==
    LET t == [i \in 1..Len(text) |-> IF text[i] = "," THEN "." ELSE text[i]]
        dots == {i \in 1..Len(t) : t[i] = "."}
        digits == SelectSeq(t, LAMBDA c : c # ".")
    IN  IF /\ digits # <<>>
           /\ \A i \in 1..Len(digits) : digits[i] \in Digits
           /\ Cardinality(dots) <= 1
           /\ \A i \in dots : 1 < i /\ i < Len(t)
        THEN Rat(int_of(digits),
                 power_of_ten(IF dots = {} THEN 0
                              ELSE Len(t) - (CHOOSE i \in dots : TRUE)))
        ELSE NaN

\* ------------------------------------------ main: the names of columns
\* A column name that main searches is the sequence of its characters.
\* the characters of a text of the source or of a column name of an input
chars(text) ==
    CASE text = "station id" ->
             <<"s", "t", "a", "t", "i", "o", "n", " ", "i", "d">>
      [] text = "station code" ->
             <<"s", "t", "a", "t", "i", "o", "n", " ", "c", "o", "d",
               "e">>
      [] text = "station longitude" ->
             <<"s", "t", "a", "t", "i", "o", "n", " ", "l", "o", "n",
               "g", "i", "t", "u", "d", "e">>
      [] text = "station latitude" ->
             <<"s", "t", "a", "t", "i", "o", "n", " ", "l", "a", "t",
               "i", "t", "u", "d", "e">>
      [] text = "longitude" ->
             <<"l", "o", "n", "g", "i", "t", "u", "d", "e">>
      [] text = "latitude" ->
             <<"l", "a", "t", "i", "t", "u", "d", "e">>
      [] text = "network id" ->
             <<"n", "e", "t", "w", "o", "r", "k", " ", "i", "d">>
      [] text = "network code" ->
             <<"n", "e", "t", "w", "o", "r", "k", " ", "c", "o", "d",
               "e">>
      [] text = "value" ->
             <<"v", "a", "l", "u", "e">>
      [] text = "transgression type id" ->
             <<"t", "r", "a", "n", "s", "g", "r", "e", "s", "s", "i",
               "o", "n", " ", "t", "y", "p", "e", " ", "i", "d">>
      [] text = "component id" ->
             <<"c", "o", "m", "p", "o", "n", "e", "n", "t", " ", "i",
               "d">>
      [] text = "id" ->
             <<"i", "d">>
      [] text = "no2" ->
             <<"n", "o", "2">>
      [] text = "Station ID" ->
             <<"S", "t", "a", "t", "i", "o", "n", " ", "I", "D">>
      [] text = "Value" ->
             <<"V", "a", "l", "u", "e">>
      [] text = "Kennziffer" ->
             <<"K", "e", "n", "n", "z", "i", "f", "f", "e", "r">>
      [] text = "Raumeinheit" ->
             <<"R", "a", "u", "m", "e", "i", "n", "h", "e", "i", "t">>
      [] text = "Aggregat" ->
             <<"A", "g", "g", "r", "e", "g", "a", "t">>
      [] text = "station" ->
             <<"s", "t", "a", "t", "i", "o", "n">>
      [] text = "code" ->
             <<"c", "o", "d", "e">>
      [] text = "mean" ->
             <<"m", "e", "a", "n">>
      [] text = "concentration" ->
             <<"c", "o", "n", "c", "e", "n", "t", "r", "a", "t", "i",
               "o", "n">>
      [] text = "lon" ->
             <<"l", "o", "n">>
      [] text = "lat" ->
             <<"l", "a", "t">>
      [] text = "network_code" ->
             <<"n", "e", "t", "w", "o", "r", "k", "_", "c", "o", "d",
               "e">>
      [] text = "Unnamed: 0" ->
             <<"U", "n", "n", "a", "m", "e", "d", ":", " ", "0">>
      [] text = "Unnamed: 1" ->
             <<"U", "n", "n", "a", "m", "e", "d", ":", " ", "1">>
      [] text = "Unnamed: 2" ->
             <<"U", "n", "n", "a", "m", "e", "d", ":", " ", "2">>
      [] text = "Wert 2023" ->
             <<"W", "e", "r", "t", " ", "2", "0", "2", "3">>

\* None where main holds a column name: the empty name
no_column == <<>>

\* sub in text
contains(text, sub) ==
    \E i \in 0..(Len(text) - Len(sub)) : SubSeq(text, i + 1, i + Len(sub)) = sub

\* str.lower() for the capitals that occur in the names below
lower(text) ==
    [i \in 1..Len(text) |->
        CASE text[i] = "D" -> "d" [] text[i] = "I" -> "i" [] text[i] = "S" -> "s"
          [] text[i] = "V" -> "v" [] OTHER -> text[i]]

\* str.isdigit()
isdigit(text) == text # <<>> /\ \A i \in 1..Len(text) : text[i] \in Digits

\* str(n) for n >= 0
RECURSIVE str_of(_)
str_of(n) ==
    LET digit == <<"0", "1", "2", "3", "4", "5", "6", "7", "8", "9">>[(n % 10) + 1]
    IN  IF n < 10 THEN <<digit>> ELSE Append(str_of(n \div 10), digit)

\* the index of the column of that name
column_index(columns, col) == CHOOSE i \in 1..Len(columns) : columns[i] = col

YEAR == 2023

\* the years of the Pendler file
PendlerYears == 2019..2023

\* the names main gives to the first eight columns of the Pendler file
PendlerNames ==
    <<chars("Kennziffer"), chars("Raumeinheit"), chars("Aggregat"),
      str_of(2019), str_of(2020), str_of(2021), str_of(2022), str_of(2023)>>

\* pendler.columns after 'if len(pendler.columns) >= 8'
renamed_columns(columns) ==
    IF Len(columns) >= 8
    THEN PendlerNames \o SubSeq(columns, 9, Len(columns))
    ELSE columns

\* year_cols of the fallback: the columns whose name holds YEAR, else those
\* whose name holds one of the years
year_cols(columns) ==
    LET of_year == SelectSeq(columns, LAMBDA col : contains(col, str_of(YEAR)))
    IN  IF of_year # <<>> THEN of_year
        ELSE SelectSeq(columns,
                       LAMBDA col : \E y \in PendlerYears : contains(col, str_of(y)))

\* year_col before the fallback to the last column: str(YEAR) when it is a
\* column, else the latest year that is a column, else None
year_col_found(columns) ==
    LET available_years ==
            {int_of(columns[i]) : i \in {j \in 1..Len(columns) :
                /\ isdigit(columns[j])
                /\ int_of(columns[j]) \in PendlerYears}}
    IN  IF has_column(columns, str_of(YEAR)) THEN str_of(YEAR)
        ELSE IF year_cols(columns) # <<>> /\ available_years # {}
        THEN str_of(CHOOSE y \in available_years : \A z \in available_years : z <= y)
        ELSE no_column

\* year_col: 'year_col = pendler.columns[-1]' when none was found
year_col(columns) ==
    IF year_col_found(columns) = no_column THEN columns[Len(columns)]
    ELSE year_col_found(columns)

\* the cell of a row of the Pendler file in the column of index j: the code
\* in the first column, the number in the last one, text in between
pendler_cell(columns, row, j) ==
    IF j = 1 THEN row.code
    ELSE IF j = Len(columns) THEN row.value
    ELSE <<"a">>

\* kreise after step 1: one unit, two units, two units of one AGS5
LoadedKreise ==
    { load_boundaries(f, FALSE) :
        f \in { <<[code |-> <<"0", "9", "1", "6", "1">>, art |-> "Kreis"]>>,
                <<[code |-> <<"0", "9", "1", "6", "1">>, art |-> "Kreis"],
                  [code |-> <<"0", "9", "3", "6", "2">>, art |-> "Kreis"]>>,
                <<[code |-> <<"0", "9", "1", "6", "1", "0", "0", "0">>, art |-> "Gemeinde"],
                  [code |-> <<"0", "9", "1", "6", "1", "0", "0", "1">>, art |-> "Gemeinde"]>> } }

\* rows of commuting_indicator.csv as read_csv gives them: the AGS5 cell
\* after astype(str), the value a number or NaN
CommRaws ==
    { <<"9", "1", "6", "1">>, <<"0", "9", "1", "6", "1">>,
      <<"9", "3", "6", "2">>, <<"9", "1", "6", "1", ".", "0">> }

CommRows == [code : CommRaws, value : {RInt(5), RInt(7), NaN}]

\* rows of the Pendler file: the Kennziffer cell after astype(str), the
\* cell of the last column after astype(str)
PendlerRaws ==
    { <<"0", "9", "1", "6", "1", "0", "0", "0">>,
      <<"9", "1", "6", "1", "0", "0", "1", ".", "0">>,
      <<"9", "3", "6", "2", "0", "0", "0">>,
      <<"n", "a", "n">> }

PendlerTexts == { <<"5">>, <<"7", ",", "5">>, <<"-">> }

PendlerRows == [code : PendlerRaws, value : PendlerTexts]

\* np.random.uniform(0, 100, len(kreise)): two of its values
DummyValues == {RInt(5), RInt(7)}

\* ------------------------------------- main, steps 3 and 4: the UBA data
\* w in col.lower()
has_word(col, w) == contains(lower(col), chars(w))

\* the last element of a sequence, a default when it is empty
last_or(seq, default) == IF seq = <<>> THEN default ELSE seq[Len(seq)]

\* the first element of a sequence, a default when it is empty
first_or(seq, default) == IF seq = <<>> THEN default ELSE seq[1]

\* lon_col: "station longitude" when it and "station latitude" are columns,
\* else the last column the fallback loop assigns, else "station longitude"
lon_column(columns) ==
    IF /\ has_column(columns, chars("station longitude"))
       /\ has_column(columns, chars("station latitude"))
    THEN chars("station longitude")
    ELSE last_or(SelectSeq(columns, LAMBDA col :
                     \/ has_word(col, "longitude")
                     \/ has_word(col, "lon") /\ has_word(col, "station")),
                 chars("station longitude"))

lat_column(columns) ==
    IF /\ has_column(columns, chars("station longitude"))
       /\ has_column(columns, chars("station latitude"))
    THEN chars("station latitude")
    ELSE last_or(SelectSeq(columns, LAMBDA col :
                     \/ has_word(col, "latitude")
                     \/ has_word(col, "lat") /\ has_word(col, "station")),
                 chars("station latitude"))

\* network_code_col: the first column named like a network code, None if none
network_code_column(columns) ==
    first_or(SelectSeq(columns, LAMBDA col :
                 has_word(col, "network code") \/ has_word(col, "network_code")),
             no_column)

\* st_id_col: the first column of stations named like a station id and not
\* like a code, else "station id"
st_id_column(columns) ==
    first_or(SelectSeq(columns, LAMBDA col :
                 has_word(col, "station") /\ has_word(col, "id") /\ ~has_word(col, "code")),
             chars("station id"))

\* station_id_col before its fallback: the last column of ab named like a
\* station id, None if none
station_id_named(columns) ==
    last_or(SelectSeq(columns, LAMBDA col : has_word(col, "station") /\ has_word(col, "id")),
            no_column)

\* station_id_col: 'station_id_col = ab.columns[0]' when none is named so
station_id_column(columns) ==
    IF station_id_named(columns) = no_column THEN columns[1] ELSE station_id_named(columns)

\* value_col before its fallback: the last column of ab named like a value
value_named(columns) ==
    last_or(SelectSeq(columns, LAMBDA col :
                has_word(col, "value") \/ has_word(col, "mean")
                    \/ has_word(col, "concentration")),
            no_column)

\* value_col: the first numeric column of ab when none is named like a
\* value, None when ab has no numeric column either
value_column(columns, numeric) ==
    IF value_named(columns) # no_column THEN value_named(columns)
    ELSE IF numeric = {} THEN no_column
    ELSE columns[CHOOSE i \in numeric : \A j \in numeric : i <= j]

\* the cell of a row of stations_df() under a column name
st_cell(row, col) ==
    CASE col = chars("station id") -> row.id
      [] col = chars("station code") -> row.code
      [] col \in {chars("station longitude"), chars("longitude")} -> row.lon
      [] col \in {chars("station latitude"), chars("latitude")} -> row.lat
      [] col = chars("network id") -> row.network_id
      [] col = chars("network code") -> row.network_code

\* the id get_network_id("BY") returns
BY_ID == "BY_ID"

\* st[(st[network_col] == BY_ID) | (st[network_code_col] == "BY")], or by
\* the id alone without a column of network codes
network_filter(st_rows, columns) ==
    SelectSeq(st_rows, LAMBDA r :
        \/ st_cell(r, chars("network id")) = BY_ID
        \/ /\ network_code_column(columns) # no_column
           /\ st_cell(r, network_code_column(columns)) = "BY")

\* stations.merge(ab[[station_id_col, value_col]].rename(...), on=st_id_col,
\* how="left") as a table of points: each station once per row of ab with
\* its id, no2_value NaN without such a row
merge_balances(st_rows, st_id_col, ab, station_id_col, value_col) ==
    LET id_at    == column_index(ab.columns, station_id_col)
        value_at == column_index(ab.columns, value_col)
    IN  concat([i \in 1..Len(st_rows) |->
            LET matches == SelectSeq(ab.rows,
                               LAMBDA r : r[id_at] = st_cell(st_rows[i], st_id_col))
            IN  IF matches = <<>>
                THEN <<[pos |-> st_rows[i].lon[1], no2_value |-> NaN]>>
                ELSE [m \in 1..Len(matches) |->
                        [pos |-> st_rows[i].lon[1],
                         no2_value |-> matches[m][value_at]]]])

\* steps 3 and 4 of main: how they end ("ok", or "exit" for sys.exit(1)),
\* what they print, the table stations they leave
fetch_uba(up, st, ab) ==
    LET failed(out) ==
            [end |-> "exit", stations |-> <<>>,
             out |-> Append(out, printed("ERROR fetching UBA data", <<>>))]
        lon_col == lon_column(st.columns)
        lat_col == lat_column(st.columns)
        warned  == IF has_column(st.columns, chars("station longitude"))
                        /\ has_column(st.columns, chars("station latitude"))
                   THEN <<>>
                   ELSE <<printed("WARNING: Coordinate columns not found. Available",
                                  st.columns)>>
    IN  IF ~up THEN failed(<<>>)
        ELSE IF \/ ~has_column(st.columns, lon_col)
                \/ ~has_column(st.columns, lat_col)
                \/ ~has_column(st.columns, chars("network id"))
        THEN failed(warned)
        ELSE
        LET valid == SelectSeq(st.rows, LAMBDA r :
                         ~isna(st_cell(r, lon_col)) /\ ~isna(st_cell(r, lat_col)))
            st_by == network_filter(valid, st.columns)
            found == Append(warned, printed("Found stations in Bavaria network",
                                            <<Len(st_by)>>))
        IN  IF Len(st_by) = 0
            THEN [end |-> "exit", stations |-> <<>>,
                  out |-> Append(found,
                      printed("ERROR: No stations found for Bavaria network", <<>>))]
            ELSE IF ab.columns = <<>> THEN failed(found)
            ELSE
            LET station_id_col == station_id_column(ab.columns)
                value_col      == value_column(ab.columns, ab.numeric)
                st_id_col      == st_id_column(st.columns)
            IN  IF value_col = no_column
                THEN [end |-> "exit", stations |-> <<>>,
                      out |-> Append(found,
                          printed("WARNING: Could not identify value column. Available",
                                  ab.columns))]
                ELSE IF ~has_column(st.columns, st_id_col) THEN failed(found)
                ELSE
                LET merged == merge_balances(st_by, st_id_col, ab,
                                             station_id_col, value_col)
                IN  [end |-> "ok", stations |-> merged,
                     out |-> Append(found,
                         printed("stations have NO2 values",
                                 <<Len(dropna(merged, "no2_value"))>>))]

\* the tables stations_df() returns.  Columns: those of the API; without
\* "station id"; with the coordinates under shorter names; without
\* "network code"
StColumns ==
    { <<chars("station id"), chars("station code"), chars("station longitude"),
        chars("station latitude"), chars("network id"), chars("network code")>>,
      <<chars("station code"), chars("station longitude"),
        chars("station latitude"), chars("network id"), chars("network code")>>,
      <<chars("station id"), chars("station code"), chars("longitude"),
        chars("latitude"), chars("network id"), chars("network code")>>,
      <<chars("station id"), chars("station code"), chars("station longitude"),
        chars("station latitude"), chars("network id")>> }

\* one station: its id, where it stands (km), whether its latitude is a
\* number, its network id and network code
StRow(id, km, lat_ok, network_id, network_code) ==
    [id |-> RInt(id), code |-> "DE", lon |-> RInt(km * Km),
     lat |-> IF lat_ok THEN RInt(0) ELSE NaN,
     network_id |-> network_id, network_code |-> network_code]

\* rows: two stations of the network; one of the network and one of another
\* network; none of the network; one of the network by its code alone; one
\* of the network without coordinates and one with
StRows ==
    { <<StRow(1, 20, TRUE, BY_ID, "BY"), StRow(2, 130, TRUE, BY_ID, "BY")>>,
      <<StRow(1, 20, TRUE, BY_ID, "BY"), StRow(2, 130, TRUE, "BE_ID", "BE")>>,
      <<StRow(1, 20, TRUE, "BE_ID", "BE"), StRow(2, 130, TRUE, "BE_ID", "BE")>>,
      <<StRow(1, 20, TRUE, "BE_ID", "BY")>>,
      <<StRow(1, 20, FALSE, BY_ID, "BY"), StRow(2, 130, TRUE, BY_ID, "BY")>> }

StTables == [columns : StColumns, rows : StRows]

\* the tables annualbalances_df() returns: the columns, which of them hold
\* numbers (the others hold text), the rows
AbTable(columns, numeric, rows) ==
    [columns |-> columns, numeric |-> numeric, rows |-> rows]

\* the three columns of the API with a value for both stations, with no
\* value for the first, with rows of other stations only; a table without
\* a column named like a value; one without a column named like a station
\* id; names in capitals; text columns without and with a numeric column;
\* no columns at all
AbTables ==
    { AbTable(<<chars("station id"), chars("value"), chars("transgression type id")>>, {1, 2, 3},
              <<<<RInt(1), RInt(10), RInt(0)>>, <<RInt(2), RInt(20), RInt(0)>>>>),
      AbTable(<<chars("station id"), chars("value"), chars("transgression type id")>>, {1, 2, 3},
              <<<<RInt(1), NaN, RInt(0)>>, <<RInt(2), RInt(20), RInt(0)>>>>),
      AbTable(<<chars("station id"), chars("value"), chars("transgression type id")>>, {1, 2, 3},
              <<<<RInt(7), RInt(10), RInt(0)>>>>),
      AbTable(<<chars("component id"), chars("station id")>>, {1, 2},
              <<<<RInt(5), RInt(1)>>, <<RInt(5), RInt(2)>>>>),
      AbTable(<<chars("id"), chars("value")>>, {1, 2},
              <<<<RInt(1), RInt(10)>>, <<RInt(2), RInt(20)>>>>),
      AbTable(<<chars("Station ID"), chars("Value")>>, {1, 2},
              <<<<RInt(1), RInt(10)>>, <<RInt(2), RInt(20)>>>>),
      AbTable(<<chars("station id"), chars("no2")>>, {},
              <<<<RInt(1), RInt(10)>>, <<RInt(2), RInt(20)>>>>),
      AbTable(<<chars("station id"), chars("no2")>>, {2},
              <<<<RInt(1), RInt(10)>>, <<RInt(2), RInt(20)>>>>),
      AbTable(<<>>, {}, <<>>) }

\* the API as it answers today: the first table of stations, the first of
\* annual balances
UsualSt ==
    [columns |-> <<chars("station id"), chars("station code"),
                   chars("station longitude"), chars("station latitude"),
                   chars("network id"), chars("network code")>>,
     rows |-> <<StRow(1, 20, TRUE, BY_ID, "BY"), StRow(2, 130, TRUE, BY_ID, "BY")>>]

UsualAb ==
    AbTable(<<chars("station id"), chars("value"), chars("transgression type id")>>, {1, 2, 3},
            <<<<RInt(1), RInt(10), RInt(0)>>, <<RInt(2), RInt(20), RInt(0)>>>>)

\* the columns of the Pendler file as read: the eight columns of the source
\* file, and files of fewer columns with the year of YEAR, with an earlier
\* year, without a year, with the year in the middle, with a year in a
\* longer name
PendlerColumns ==
    { <<chars("Unnamed: 0"), chars("Unnamed: 1"), chars("Unnamed: 2"),
        str_of(2019), str_of(2020), str_of(2021), str_of(2022), str_of(2023)>>,
      <<chars("Kennziffer"), chars("Raumeinheit"), str_of(2023)>>,
      <<chars("Kennziffer"), chars("Raumeinheit"), str_of(2022)>>,
      <<chars("Kennziffer"), chars("Raumeinheit"), chars("Aggregat")>>,
      <<chars("Kennziffer"), str_of(2022), chars("Aggregat")>>,
      <<chars("Kennziffer"), chars("Wert 2023")>> }

InitComm ==
    /\ NormIdle
    /\ IdwIdle
    /\ ClsIdle
    /\ DemIdle
    /\ pc = "boundaries_loaded"
    /\ bd_raw = <<>> /\ bd_has_art = FALSE /\ bd_code_name = "AGS5"
    /\ kreise \in LoadedKreise
    /\ cm_source \in {"comm", "pendler", "dummy"}
    /\ cm_columns \in IF cm_source = "pendler" THEN PendlerColumns ELSE { <<>> }
    /\ uba_up = TRUE /\ uba_st = UsualSt /\ uba_ab = UsualAb
    /\ stdout = <<>>
    /\ cm_raw \in CASE cm_source = "comm" ->
                       UNION { [1..n -> CommRows] : n \in 1..MaxRecords }
                    [] cm_source = "pendler" ->
                       UNION { [1..n -> PendlerRows] : n \in 1..MaxRecords }
                    [] cm_source = "dummy" -> { <<>> }
    /\ comm = <<>> /\ stations = <<>>
    /\ stations_with_data = <<>> /\ join = <<>> /\ no2_mean = <<>>
    /\ todo = <<>> /\ bayern = <<>> /\ oberpfalz = <<>>

\* comm from commuting_indicator.csv
load_comm(rows) ==
    [i \in 1..Len(rows) |->
        [AGS5 |-> zfill(rows[i].code, 5), commute_value |-> rows[i].value]]

\* comm from the Pendler file: AGS8, AGS5, commute_value, the mean per AGS5
load_pendler(file_columns, rows) ==
    LET columns == renamed_columns(file_columns)
        value_at == column_index(columns, year_col(columns))
        pendler == [i \in 1..Len(rows) |->
                       [AGS8 |-> pendler_ags8(pendler_cell(columns, rows[i], 1)),
                        AGS5 |-> str_slice(pendler_ags8(pendler_cell(columns, rows[i], 1)), 5),
                        commute_value |->
                            to_numeric(pendler_cell(columns, rows[i], value_at))]]
        grouped == groupby_mean(pendler, "commute_value")
    IN  [i \in 1..Len(grouped) |->
            [grouped[i] EXCEPT !.AGS5 = zfill(grouped[i].AGS5, 5)]]

\* comm made up for the first unit of kreise alone
load_dummy_first(units, values) ==
    [i \in 1..1 |-> [AGS5 |-> units[i].AGS5, commute_value |-> values[i]]]

\* comm made up for the units of kreise
load_dummy(units, values) ==
    [i \in 1..Len(units) |-> [AGS5 |-> units[i].AGS5, commute_value |-> values[i]]]

\* 2. the commuting indicator
LoadCommuting ==
    /\ pc = "boundaries_loaded"
    /\ \/ /\ cm_source = "comm"
          /\ comm' = load_comm(cm_raw)
          /\ stdout' = Append(stdout, printed("Loaded commuting data for units",
                                              <<Len(comm')>>))
       \/ /\ cm_source = "pendler"
          /\ comm' = load_pendler(cm_columns, cm_raw)
          /\ stdout' = stdout \o
               (IF year_col_found(renamed_columns(cm_columns)) = no_column
                THEN <<printed("WARNING: Could not find year, using last available year column",
                               <<>>)>>
                ELSE <<>>) \o
               <<printed("Loaded commuting data for units", <<Len(comm')>>)>>
       \/ /\ cm_source = "dummy"
          /\ \E values \in [1..Len(kreise) -> DummyValues] :
                 comm' = load_dummy(kreise, values)
          /\ stdout' = stdout \o
               <<printed("WARNING: Commuting data not found", <<>>),
                 printed("Creating dummy commuting values for testing...", <<>>),
                 printed("Loaded commuting data for units", <<Len(comm')>>)>>
    /\ pc' = "comm_loaded"
    /\ UNCHANGED <<kreise, stations, stations_with_data, join, no2_mean, todo,
                   bayern, oberpfalz, load_vars, norm_vars, idw_vars, cls_vars, dem_vars>>

\* 3. and 4. the stations of the Bavarian network with their annual values
FetchUBA ==
    /\ pc = "comm_loaded"
    /\ LET result == fetch_uba(uba_up, uba_st, uba_ab)
       IN  /\ pc' = IF result.end = "ok" THEN "loaded" ELSE "exit"
           /\ stations' = IF result.end = "ok" THEN result.stations ELSE stations
           /\ stdout' = stdout \o result.out
    /\ UNCHANGED <<kreise, comm, stations_with_data, join, no2_mean, todo,
                   bayern, oberpfalz, load_vars, norm_vars, idw_vars, cls_vars, dem_vars>>

NextComm ==
    \/ LoadCommuting
    \/ FetchUBA
    \/ MergeCommute

SpecComm == InitComm /\ [][NextComm]_vars

\* ------------------------------------------------ main, from start to end
\* One run of main over its inputs: a boundary file of two Kreise whose
\* codes stand under a name main knows or under another one; the commuting
\* indicator from commuting_indicator.csv (for these Kreise, or for Kreise
\* of another Land), from the Pendler file (with and without a year column)
\* or from neither; the UBA API down, or up with its tables.
InitRun ==
    /\ NormIdle
    /\ IdwIdle
    /\ ClsIdle
    /\ DemIdle
    /\ pc = "start"
    /\ bd_raw = <<[code |-> <<"0", "9", "1", "6", "1">>, art |-> "Kreis"],
                  [code |-> <<"0", "9", "3", "6", "2">>, art |-> "Kreis"]>>
    /\ bd_has_art = TRUE
    /\ bd_code_name \in {"AGS5", "RS", "gen"}
    /\ cm_source \in {"comm", "pendler", "dummy"}
    /\ cm_raw \in
         CASE cm_source = "comm" ->
                { <<[code |-> <<"9", "1", "6", "1">>, value |-> RInt(5)],
                    [code |-> <<"9", "3", "6", "2">>, value |-> RInt(7)]>>,
                  <<[code |-> <<"1", "4", "5", "1", "1">>, value |-> RInt(5)]>> }
           [] cm_source = "pendler" ->
                { <<[code |-> <<"0", "9", "1", "6", "1", "0", "0", "0">>,
                     value |-> <<"5">>],
                    [code |-> <<"9", "3", "6", "2", "0", "0", "0">>,
                     value |-> <<"7", ",", "5">>]>> }
                    [] cm_source = "dummy" -> { <<>> }
    /\ cm_columns \in IF cm_source = "pendler" THEN PendlerColumns ELSE { <<>> }
    /\ uba_up \in BOOLEAN
    /\ uba_st \in IF uba_up THEN StTables ELSE {UsualSt}
    /\ uba_ab \in IF uba_up THEN AbTables ELSE {UsualAb}
    /\ stdout = <<>>
    /\ kreise = <<>> /\ comm = <<>> /\ stations = <<>>
    /\ stations_with_data = <<>> /\ join = <<>> /\ no2_mean = <<>>
    /\ todo = <<>> /\ bayern = <<>> /\ oberpfalz = <<>>

NextRun ==
    \/ LoadBoundaries
    \/ LoadCommuting
    \/ FetchUBA
    \/ MergeCommute
    \/ Aggregate
    \/ StartInterpolation
    \/ InterpolateOne
    \/ Classify
    \/ Export

SpecRun == InitRun /\ [][NextRun]_vars

\* ---------------------------------------------- properties of idw_value
\* the rows of the station table that carry a value and lie within max_km
\* of the target: 1000 * max_km metres, compared in coordinate steps
Qualifying(target, gdf, max_km) ==
    {i \in 1..Len(gdf) :
        /\ gdf[i].val # NaN
        /\ Abs(gdf[i].pos - target) * max_km[2]
              <= max_km[1] * 1000 * GridPerMetre}

IdwQualifying == Qualifying(idw_target, idw_stations, idw_max_km)

\* how often a station (coordinate, value) occurs among the kept rows
KeptCount(pos, val) ==
    Cardinality({j \in 1..Len(idw_kept) :
                    idw_kept[j].pos = pos /\ idw_kept[j].val = val})

Min(a, b) == IF a < b THEN a ELSE b

\* C3: idw_value returns NaN exactly when no station with a value lies within
\* max_km of the target; a non-empty kept set always yields a number.
C3_NoEstimateIffNoneQualifies ==
    idw_pc = "done" =>
        /\ isna(idw_result) <=> IdwQualifying = {}
        /\ idw_kept # <<>> => ~isna(idw_result)

\* a call that returns NaN although the table holds a station with a value:
\* that station lies beyond the radius
C3_Witness ==
    /\ idw_pc = "done"
    /\ isna(idw_result)
    /\ \E i \in 1..Len(idw_stations) : idw_stations[i].val # NaN

\* C4: the kept rows are min(k, number qualifying) of the qualifying rows,
\* none of them farther from the target than a qualifying row left out.
C4_KeptAreKNearest ==
    idw_pc = "done" =>
        \E S \in SUBSET IdwQualifying :
            /\ Cardinality(S) = Min(idw_k, Cardinality(IdwQualifying))
            /\ Len(idw_kept) = Cardinality(S)
            /\ \A r \in StationRows :
                  Cardinality({i \in S : idw_stations[i] = r}) = KeptCount(r.pos, r.val)
            /\ \A i \in S, j \in IdwQualifying \ S :
                  Abs(idw_stations[i].pos - idw_target)
                    <= Abs(idw_stations[j].pos - idw_target)

\* more rows qualify than k, the nearest one comes last in the table
C4_Witness ==
    /\ idw_pc = "done"
    /\ Cardinality(IdwQualifying) > idw_k
    /\ Len(idw_kept) = idw_k
    /\ \E i \in IdwQualifying :
          /\ i = Len(idw_stations)
          /\ \A j \in IdwQualifying \ {i} :
                Abs(idw_stations[i].pos - idw_target)
                  < Abs(idw_stations[j].pos - idw_target)

\* the weight the claim gives a kept row: 1 below one metre, else 1/d
ClaimedWeight(row) ==
    LET steps == Abs(row.pos - idw_target)
    IN  IF steps < GridPerMetre THEN RInt(1) ELSE Rat(GridPerMetre, steps)

\* C5: for a non-empty kept set the result r satisfies
\* r * sum(w_i) = sum(w_i * v_i) with w_i = 1 / max(d_i, 1 m); a kept row
\* closer than one metre has weight exactly 1.
C5_WeightedMean ==
    (idw_pc = "done" /\ idw_kept # <<>>) =>
        /\ ~isna(idw_result)
        /\ \A j \in 1..Len(idw_kept) :
              weights(idw_kept)[j] = ClaimedWeight(idw_kept[j])
        /\ RMul(idw_result,
                RSum([j \in 1..Len(idw_kept) |-> ClaimedWeight(idw_kept[j])]))
             = RSum([j \in 1..Len(idw_kept) |->
                      RMul(ClaimedWeight(idw_kept[j]), idw_kept[j].val)])

\* two kept rows of different value, one closer than a metre but not at the
\* target, one farther than a metre
C5_Witness ==
    /\ idw_pc = "done"
    /\ \E a, b \in 1..Len(idw_kept) :
          /\ idw_kept[a].val # idw_kept[b].val
          /\ idw_kept[a].pos # idw_target
          /\ Abs(idw_kept[a].pos - idw_target) < GridPerMetre
          /\ Abs(idw_kept[b].pos - idw_target) > GridPerMetre

\* the stations with a value that lie on the target
Coincident ==
    {i \in 1..Len(idw_stations) :
        idw_stations[i].val # NaN /\ idw_stations[i].pos = idw_target}

RAbs(a) == <<Abs(a[1]), a[2]>>

\* C6 as stated: a station on the target makes idw_value return that
\* station's value (to within 1/1000), whatever else lies within the radius.
C6_Original ==
    idw_pc = "done" =>
        \A i \in Coincident :
            /\ ~isna(idw_result)
            /\ RLe(RAbs(RSub(idw_result, idw_stations[i].val)), Rat(1, 1000))

\* C6 amended: a station on the target makes idw_value return that station's
\* value when every kept row carries that value (so when it is the only row
\* kept); other kept rows of another value move the result away from it.
C6_CoincidentAlone ==
    idw_pc = "done" =>
        \A i \in Coincident :
            (\A j \in 1..Len(idw_kept) : idw_kept[j].val = idw_stations[i].val)
                => idw_result = idw_stations[i].val

\* a station on the target is kept together with a second row of its value
\* farther than a metre, while the table holds a station of another value
C6_Witness ==
    /\ idw_pc = "done"
    /\ Len(idw_kept) = 2
    /\ \E i \in Coincident :
          /\ \A j \in 1..Len(idw_kept) : idw_kept[j].val = idw_stations[i].val
          /\ \E j \in 1..Len(idw_kept) :
                Abs(idw_kept[j].pos - idw_target) > GridPerMetre
          /\ \E j \in 1..Len(idw_stations) :
                idw_stations[j].val \notin {NaN, idw_stations[i].val}

\* C7: a target that gets an estimate with max_km = r1 gets one with every
\* r2 >= r1 (same table, same k).
C7_RadiusMonotone ==
    idw_pc = "done" =>
        \A r2 \in Radii :
            (RLe(idw_max_km, r2) /\ ~isna(idw_result))
                => ~isna(idw_value(idw_target, idw_stations, "val", idw_k, r2))

\* the smallest radius already gives an estimate, and a larger radius
\* brings further stations in
C7_Witness ==
    /\ idw_pc = "done"
    /\ ~isna(idw_result)
    /\ \E r2 \in Radii :
          /\ RLt(idw_max_km, r2)
          /\ Qualifying(idw_target, idw_stations, r2) # IdwQualifying

\* C25: an estimate that idw_value returns lies between the least and the
\* greatest value of the kept rows; with one kept row it is that row's value.
C25_EstimateWithinKept ==
    (idw_pc = "done" /\ ~isna(idw_result)) =>
        /\ idw_kept # <<>>
        /\ \E j \in 1..Len(idw_kept) : RLe(idw_kept[j].val, idw_result)
        /\ \E j \in 1..Len(idw_kept) : RLe(idw_result, idw_kept[j].val)
        /\ Len(idw_kept) = 1 => idw_result = idw_kept[1].val

\* two kept rows of different value at different distances: the estimate
\* lies strictly between the two values
C25_Witness ==
    /\ idw_pc = "done"
    /\ Len(idw_kept) = 2
    /\ RLt(idw_kept[1].val, idw_result)
    /\ RLt(idw_result, idw_kept[2].val)
    /\ Abs(idw_kept[1].pos - idw_target) # Abs(idw_kept[2].pos - idw_target)

(***************************************************************************)
(* download_copernicus_dem (00_download_data.py).  Tiles are numbered in   *)
(* the order of the list 'tiles'; sources in the order of 'dem_sources'.   *)
(* In the loop over tiles[:3] the two lines that build the url and call    *)
(* download_file stand inside the 'if tile_file.exists():' block, after    *)
(* its 'continue': they are never executed, and for a tile that is not on  *)
(* disk the next statement, 'if result:', reads a local that was never     *)
(* bound, which raises UnboundLocalError.                                  *)
(***************************************************************************)
\* tiles of the list that are modelled (the list has 20)
NumTiles == 4

\* tiles[:3]
TestTiles == 3

\* len(dem_sources)
NumSources == 2

\* the other variables while download_copernicus_dem runs
PipelineIdle == NormIdle /\ LoadIdle /\ MainIdle /\ IdwIdle /\ ClsIdle

InitDem ==
    /\ PipelineIdle
    /\ dem_pc = "call"
    /\ dem_skip \in BOOLEAN
    /\ dem_disk \in SUBSET (1..NumTiles)
    /\ dem_source = 0 /\ dem_tile = 0
    /\ downloaded_count = 0 /\ source_worked = FALSE /\ source_downloaded = 0
    /\ dem_requested = {} /\ dem_return = "unset"

pipeline_vars == <<main_vars, idw_vars, cls_vars, norm_vars, load_vars, stdout>>

\* 'if skip: return None', else the locals before the loop over the sources
DemEnter ==
    /\ dem_pc = "call"
    /\ \/ /\ dem_skip
          /\ dem_pc' = "returned" /\ dem_return' = "None"
          /\ UNCHANGED <<dem_source, downloaded_count, source_worked>>
       \/ /\ ~dem_skip
          /\ dem_pc' = "source" /\ dem_source' = 1
          /\ downloaded_count' = 0 /\ source_worked' = FALSE
          /\ UNCHANGED dem_return
    /\ UNCHANGED <<dem_skip, dem_disk, dem_tile, source_downloaded, dem_requested,
                   pipeline_vars>>

\* head of 'for source in dem_sources': the loop ends after the last source
\* or by 'if source_worked: break'
DemSource ==
    /\ dem_pc = "source"
    /\ IF dem_source > NumSources \/ source_worked
       THEN dem_pc' = "finish" /\ UNCHANGED <<source_downloaded, dem_tile>>
       ELSE dem_pc' = "tile" /\ source_downloaded' = 0 /\ dem_tile' = 1
    /\ UNCHANGED <<dem_skip, dem_disk, dem_source, downloaded_count, source_worked,
                   dem_requested, dem_return, pipeline_vars>>

\* body of 'for tile in tiles[:3]'
DemTestTile ==
    /\ dem_pc = "tile"
    /\ \/ \* the tile is on disk: counted, 'continue'
          /\ dem_tile \in dem_disk
          /\ downloaded_count' = downloaded_count + 1
          /\ source_downloaded' = source_downloaded + 1
          /\ IF dem_tile < TestTiles
             THEN dem_tile' = dem_tile + 1 /\ dem_pc' = "tile"
             ELSE dem_tile' = dem_tile /\ dem_pc' = "after_tests"
       \/ \* the tile is not on disk: 'if result:' with result unbound
          /\ dem_tile \notin dem_disk
          /\ dem_pc' = "raised"
          /\ UNCHANGED <<downloaded_count, source_downloaded, dem_tile>>
    /\ UNCHANGED <<dem_skip, dem_disk, dem_source, source_worked, dem_requested,
                   dem_return, pipeline_vars>>

\* 'if source_worked:' the remaining tiles from this source, every one that
\* is not on disk requested and counted when download_file returns a path;
\* then the next source
DemAfterTests ==
    /\ dem_pc = "after_tests"
    /\ IF source_worked
       THEN LET rest    == (TestTiles + 1)..NumTiles
                missing == rest \ dem_disk
            IN  \E ok \in SUBSET missing :
                    /\ dem_requested' = dem_requested \cup
                                          {<<dem_source, t>> : t \in missing}
                    /\ dem_disk' = dem_disk \cup ok
                    /\ downloaded_count' = downloaded_count
                                             + Cardinality(rest \cap dem_disk)
                                             + Cardinality(ok)
       ELSE UNCHANGED <<dem_requested, dem_disk, downloaded_count>>
    /\ dem_source' = dem_source + 1
    /\ dem_pc' = "source"
    /\ UNCHANGED <<dem_skip, dem_tile, source_worked, source_downloaded,
                   dem_return, pipeline_vars>>

\* 'return DEM_DIR if downloaded_count > 0 else None'
DemReturn ==
    /\ dem_pc = "finish"
    /\ dem_return' = IF downloaded_count > 0 THEN "DEM_DIR" ELSE "None"
    /\ dem_pc' = "returned"
    /\ UNCHANGED <<dem_skip, dem_disk, dem_source, dem_tile, downloaded_count,
                   source_worked, source_downloaded, dem_requested, pipeline_vars>>

NextDem == DemEnter \/ DemSource \/ DemTestTile \/ DemAfterTests \/ DemReturn

SpecDem == InitDem /\ [][NextDem]_vars

\* C26 as stated: with skip=False the call always completes (it never ends
\* by raising), every one of the first three tiles that was visited and is
\* not on disk has been requested from the source being tried, and the
\* call returns the DEM directory when a tile is present and None otherwise.
C26_Original ==
    /\ dem_pc # "raised"
    /\ (dem_pc \in {"tile", "after_tests"}) =>
           \A t \in 1..TestTiles :
               (t < dem_tile /\ t \notin dem_disk) => <<dem_source, t>> \in dem_requested
    /\ (dem_pc = "returned" /\ ~dem_skip) =>
           (dem_return = "DEM_DIR" <=> dem_disk # {})

\* ------------------------------------- properties of classify_bivariate
\* the rows of the table handed in whose field col is present
Present(col) == {i \in 1..Len(cls_in) : cls_in[i][col] # NaN}

\* the j-th smallest present value of field col, j = 1 .. number present
OrderStat(col, j) ==
    CHOOSE v \in {cls_in[i][col] : i \in Present(col)} :
        /\ Cardinality({i \in Present(col) : RLt(cls_in[i][col], v)}) < j
        /\ j <= Cardinality({i \in Present(col) : RLe(cls_in[i][col], v)})

\* the a/3 quantile of the present values of field col, by linear
\* interpolation between order statistics (at least one value present)
Breakpoint(col, a) ==
    LET n  == Cardinality(Present(col))
        lo == ((n - 1) * a) \div 3
        r  == ((n - 1) * a) % 3
    IN  IF r = 0 THEN OrderStat(col, lo + 1)
        ELSE RAdd(OrderStat(col, lo + 1),
                  RMul(Rat(r, 3),
                       RSub(OrderStat(col, lo + 2), OrderStat(col, lo + 1))))

ClaimedBin(col, i) ==
    IF cls_in[i][col] = NaN THEN NaN
    ELSE IF RLe(cls_in[i][col], Breakpoint(col, 1)) THEN RInt(1)
    ELSE IF RLe(cls_in[i][col], Breakpoint(col, 2)) THEN RInt(2)
    ELSE RInt(3)

\* C8: per field, with q1 and q2 the 1/3 and 2/3 quantiles of the present
\* values, a present value v gets bin 1 if v <= q1, else 2 if v <= q2, else 3
\* (a value on a breakpoint goes to the lower bin); an absent value gets none.
C8_BinsByTertiles ==
    cls_pc = "done" =>
        /\ Len(cls_out) = Len(cls_in)
        /\ \A i \in 1..Len(cls_in) :
              /\ cls_out[i].x_bin = ClaimedBin("x", i)
              /\ cls_out[i].y_bin = ClaimedBin("y", i)

\* two different values of field x lie on q1 and on q2 and get bins 1 and 2,
\* another value gets bin 3, and field y is absent in some row
C8_Witness ==
    /\ cls_pc = "done"
    /\ \E i, j, h \in Present("x") :
          /\ cls_in[i].x = Breakpoint("x", 1) /\ cls_out[i].x_bin = RInt(1)
          /\ cls_in[j].x = Breakpoint("x", 2) /\ cls_out[j].x_bin = RInt(2)
          /\ cls_out[h].x_bin = RInt(3)
    /\ \E i \in 1..Len(cls_in) : cls_in[i].y = NaN /\ cls_out[i].y_bin = NaN

\* the x bins of the nine-value table, by value 1..9
NineBins == [i \in 1..9 |-> cls_out[i].x_bin]

\* C9 as stated: of the values 1..9, the values 1,2,3 get bin 1, the values
\* 4,5,6,7 bin 2 and the values 8,9 bin 3.
C9_Original ==
    (cls_pc = "done" /\ cls_in = NineRows) =>
        NineBins = <<RInt(1), RInt(1), RInt(1), RInt(2), RInt(2), RInt(2),
                     RInt(2), RInt(3), RInt(3)>>

\* C9 amended: the breakpoints are 11/3 and 19/3, so the values 1,2,3 get
\* bin 1, the values 4,5,6 bin 2 and the values 7,8,9 bin 3.
C9_NineValues ==
    (cls_pc = "done" /\ cls_in = NineRows) =>
        /\ quantiles(column(cls_in, "x")) = <<RInt(1), Rat(11, 3), Rat(19, 3), RInt(9)>>
        /\ NineBins = <<RInt(1), RInt(1), RInt(1), RInt(2), RInt(2), RInt(2),
                        RInt(3), RInt(3), RInt(3)>>

C9_Witness == cls_pc = "done" /\ cls_in = NineRows /\ Len(cls_out) = 9

\* C10: a row whose x or whose y is absent has group None.
C10_AbsentFieldNoGroup ==
    cls_pc = "done" =>
        \A i \in 1..Len(cls_in) :
            (cls_in[i].x = NaN \/ cls_in[i].y = NaN) => cls_out[i].group = None

\* rows with only x absent, only y absent and with both present, the last
\* one carrying a group
C10_Witness ==
    /\ cls_pc = "done"
    /\ \E i, j, h \in 1..Len(cls_in) :
          /\ cls_in[i].x = NaN /\ cls_in[i].y # NaN /\ cls_out[i].group = None
          /\ cls_in[j].x # NaN /\ cls_in[j].y = NaN /\ cls_out[j].group = None
          /\ cls_in[h].x # NaN /\ cls_in[h].y # NaN /\ cls_out[h].group # None

\* ------------------------------------------- properties of the aggregation
\* the values of the stations that carry one and lie strictly inside the
\* polygon, in the order of the station table
ValuesInside(geometry) ==
    column(SelectSeq(stations,
                     LAMBDA p : /\ p.no2_value # NaN
                                /\ geometry.lo < p.pos
                                /\ p.pos < geometry.hi),
           "no2_value")

\* their arithmetic mean, NaN when there is none
MeanInside(geometry) ==
    IF ValuesInside(geometry) = <<>> THEN NaN
    ELSE RDiv(RSum(ValuesInside(geometry)), RInt(Len(ValuesInside(geometry))))

\* C1 as stated: after the aggregation every unit's no2_value is the mean of
\* the values of the stations within its own polygon, NaN when there is none.
C1_Original ==
    pc = "aggregated" =>
        \A r \in 1..Len(kreise) :
            kreise[r].no2_value = MeanInside(kreise[r].geometry)

\* no two different polygons of the table share interior points
NonOverlapping ==
    \A a, b \in 1..Len(kreise) :
        kreise[a].geometry # kreise[b].geometry =>
            \/ kreise[a].geometry.hi <= kreise[b].geometry.lo
            \/ kreise[b].geometry.hi <= kreise[a].geometry.lo

\* every station lies in some polygon or on its boundary
Covering ==
    \A i \in 1..Len(stations) : \E r \in 1..Len(kreise) :
        /\ kreise[r].geometry.lo <= stations[i].pos
        /\ stations[i].pos <= kreise[r].geometry.hi

\* the identifiers into whose mean station i of stations_with_data enters
KeysOf(i) == {join[j].AGS5 : j \in {h \in 1..Len(join) : join[h].index_left = i}}

\* the polygons whose unit has a mean that station i enters
CountedIn(i) ==
    {kreise[r].geometry : r \in {h \in 1..Len(kreise) : kreise[h].AGS5 \in KeysOf(i)}}

\* C2 as stated: with non-overlapping polygons that cover the stations, every
\* station with a value is counted in the mean of exactly one unit, the
\* stations on a shared boundary included.
C2_Original ==
    (pc = "aggregated" /\ NonOverlapping /\ Covering) =>
        \A i \in 1..Len(stations_with_data) : Cardinality(CountedIn(i)) = 1

\* the identifiers of the units whose polygon has the position strictly inside
HoldersOf(pos) ==
    {kreise[r].AGS5 : r \in {h \in 1..Len(kreise) :
        kreise[h].geometry.lo < pos /\ pos < kreise[h].geometry.hi}}

\* the values of the stations strictly inside a polygon of identifier key
ValuesOfKey(key) ==
    column(SelectSeq(stations_with_data, LAMBDA p : key \in HoldersOf(p.pos)),
           "no2_value")

\* C2 amended: with non-overlapping polygons, a station with a value that
\* lies strictly inside a polygon enters the mean of exactly one identifier,
\* that of the polygon, with the weight of every other such station; a
\* station on a polygon boundary or outside all polygons enters no mean.
\* The mean of an identifier goes to every unit that carries it.
C2_OneIdentifierPerInnerStation ==
    (pc = "aggregated" /\ NonOverlapping) =>
        /\ \A i \in 1..Len(stations_with_data) :
              /\ KeysOf(i) = HoldersOf(stations_with_data[i].pos)
              /\ Cardinality(KeysOf(i)) <= 1
        /\ \A r \in 1..Len(kreise) :
              kreise[r].no2_value =
                  IF ValuesOfKey(kreise[r].AGS5) = <<>> THEN NaN
                  ELSE RDiv(RSum(ValuesOfKey(kreise[r].AGS5)),
                            RInt(Len(ValuesOfKey(kreise[r].AGS5))))

\* two adjacent units of different identifier, one station with a value on
\* their shared boundary that enters no mean, one inside a unit that enters
\* that unit's mean
C2_Witness ==
    /\ pc = "aggregated"
    /\ NonOverlapping
    /\ Covering
    /\ \E a, b \in 1..Len(kreise), i, j \in 1..Len(stations_with_data) :
          /\ kreise[a].AGS5 # kreise[b].AGS5
          /\ kreise[a].geometry.hi = kreise[b].geometry.lo
          /\ stations_with_data[i].pos = kreise[a].geometry.hi
          /\ KeysOf(i) = {}
          /\ KeysOf(j) = {kreise[a].AGS5}
          /\ kreise[a].no2_value = stations_with_data[j].no2_value
          /\ kreise[b].no2_value = NaN

\* --------------------------------------- properties of the classified table
\* the digit of a bin number
BinDigit == <<"1", "2", "3">>

\* the tertile bins of column col of the units' table, as numbers, 0 where
\* the value is absent
TertilesOf(col) ==
    LET q == quantiles(column(kreise, col))
    IN  [i \in 1..Len(kreise) |->
            LET b == get_bin(kreise[i][col], q)
            IN  IF isna(b) THEN 0 ELSE b[1]]

TertileOf(col, i) == TertilesOf(col)[i]

\* C11: in the classified table of the pipeline, every unit with a bin for
\* the pollutant value and a bin for the commute value has the group
\* "<bin of commute_value>-<bin of no2_value>": the commute bin (Y) first,
\* the pollutant bin (X) second, both in 1..3; x_bin is the bin of
\* no2_value and y_bin the bin of commute_value.
C11_GroupIsYThenX ==
    pc \in {"classified", "exported"} =>
        LET x == TertilesOf("no2_value")
            y == TertilesOf("commute_value")
        IN  \A i \in 1..Len(kreise) :
                /\ kreise[i].x_bin = (IF x[i] = 0 THEN NaN ELSE RInt(x[i]))
                /\ kreise[i].y_bin = (IF y[i] = 0 THEN NaN ELSE RInt(y[i]))
                /\ (x[i] # 0 /\ y[i] # 0) =>
                      /\ x[i] \in 1..3
                      /\ y[i] \in 1..3
                      /\ kreise[i].group = BinDigit[y[i]] \o "-" \o BinDigit[x[i]]

\* a classified unit whose commute value is in the top tertile and whose
\* pollutant value is in the bottom one: its group is "3-1", not "1-3"
C11_Witness ==
    /\ pc = "classified"
    /\ \E i \in 1..Len(kreise) :
          /\ TertileOf("commute_value", i) = 3
          /\ TertileOf("no2_value", i) = 1
          /\ kreise[i].group = "3-1"

\* ------------------------------------------- properties of the identifiers
\* the first five digits of an official code
KreisPrefix(code) == SubSeq(code, 1, 5)

ListedForms == {"str", "int", "float"}

\* C13 as stated: the AGS5 built from an official code, written in any of
\* the listed ways and read at any place, is the AGS5 built from every
\* official code with the same first five digits, however written and
\* wherever read.
C13_Original ==
    nz_pc = "done" =>
        \A c \in OfficialCodes, f \in ListedForms :
            nz_raw = serialize(c, f) =>
                \A c2 \in OfficialCodes, f2 \in ListedForms, p2 \in Paths :
                    KreisPrefix(c2) = KreisPrefix(c) =>
                        normalize(p2, serialize(c2, f2)) = nz_out

\* C14 as stated: the AGS5 built from an official code, written in any of
\* the listed ways, has five characters at every place.
C14_Original ==
    nz_pc = "done" =>
        \A c \in OfficialCodes, f \in ListedForms :
            nz_raw = serialize(c, f) => Len(nz_out) = 5

\* ------------------------------------------ properties of the loaded tables
\* C16 as stated: after step 1 (AGS5 column, Bayern filter, 'art' filter)
\* no two units of kreise carry the same AGS5.
C16_Original ==
    pc = "boundaries_loaded" =>
        \A i, j \in 1..Len(kreise) : kreise[i].AGS5 = kreise[j].AGS5 => i = j

\* a raw identifier that, quotes and ".0" removed, is a non-empty text of digits
ValidRaw(code) ==
    LET cleaned == remove_all(strip(code, "\""), <<".", "0">>)
    IN  cleaned # <<>> /\ \A i \in 1..Len(cleaned) : cleaned[i] \in Digits

\* C15 as stated, for the commuting files: a record whose identifier is
\* empty or not numeric gets no AGS5, so that every row of comm stems from
\* a record with a valid identifier.
C15_Original ==
    (pc \in {"loaded", "merged"} /\ cm_source \in {"comm", "pendler"}) =>
        \A j \in 1..Len(comm) :
            \E i \in 1..Len(cm_raw) :
                /\ ValidRaw(cm_raw[i].code)
                /\ normalize(cm_source, cm_raw[i].code) = comm[j].AGS5

\* the value of a record of the commuting file as a number
RecordValue(i) ==
    IF cm_source = "pendler" THEN to_numeric(cm_raw[i].value) ELSE cm_raw[i].value

\* the mean of the values that are not NaN of the records whose AGS5 is
\* ags5, NaN when there is none
ExpectedCommute(ags5) ==
    LET hits == SelectSeq([i \in 1..Len(cm_raw) |->
                              [code |-> cm_raw[i].code, value |-> RecordValue(i)]],
                          LAMBDA r : normalize(cm_source, r.code) = ags5
                                     /\ r.value # NaN)
    IN  IF hits = <<>> THEN NaN
        ELSE RDiv(RSum([i \in 1..Len(hits) |-> hits[i].value]), RInt(Len(hits)))

\* C17 as stated: the merge of step 5 keeps the units of kreise as they are,
\* each once and in place, and gives each the mean of the values of the
\* records of its AGS5, for commuting_indicator.csv and for the Pendler file.
C17_Original ==
    [][(pc = "loaded" /\ pc' = "merged" /\ cm_source \in {"comm", "pendler"}) =>
          /\ Len(kreise') = Len(kreise)
          /\ \A i \in 1..Len(kreise) :
                i <= Len(kreise') =>
                    /\ kreise'[i].AGS5 = kreise[i].AGS5
                    /\ kreise'[i].geometry = kreise[i].geometry
                    /\ kreise'[i].commute_value = ExpectedCommute(kreise[i].AGS5)]_vars

\* ------------------------------------------ properties of the gap filling
\* the mean the aggregation found for the AGS5 of unit r, NaN if none
DirectValue(r) ==
    LET hits == SelectSeq(no2_mean, LAMBDA m : m.AGS5 = kreise[r].AGS5)
    IN  IF hits = <<>> THEN NaN ELSE hits[1].no2_value

\* the units the aggregation left without a value
MissingAfterAggregation == {r \in 1..Len(kreise) : DirectValue(r) = NaN}

\* the point halfway between the ends of a strip
Centre(geometry) == (geometry.lo + geometry.hi) \div 2

\* the estimate for unit r from the stations that carry a value
EstimateAt(r) ==
    idw_value(Centre(kreise[r].geometry), dropna(stations, "no2_value"),
              "no2_value", K_NEAREST, RInt(MAX_KM))

\* C18: the loop visits only units the aggregation left without a value;
\* after it, every such unit carries idw_value at its representative point
\* (NaN when no station qualifies) and every other unit carries the mean
\* the aggregation gave it.
C18_InterpolatesExactlyMissing ==
    /\ pc = "idw" => \A t \in 1..Len(todo) : todo[t] \in MissingAfterAggregation
    /\ pc = "interpolated" =>
          \A r \in 1..Len(kreise) :
              kreise[r].no2_value =
                  IF r \in MissingAfterAggregation THEN EstimateAt(r)
                  ELSE DirectValue(r)

\* after the loop: a unit that was left without a value and now carries an
\* estimate, next to a unit that keeps its mean, which differs from the
\* estimate at its own representative point
C18_Witness ==
    /\ pc = "interpolated"
    /\ \E a, b \in 1..Len(kreise) :
          /\ a \in MissingAfterAggregation
          /\ kreise[a].no2_value # NaN
          /\ b \notin MissingAfterAggregation
          /\ kreise[b].no2_value = DirectValue(b)
          /\ kreise[b].no2_value # EstimateAt(b)

\* the fields of a unit that the pipeline fills
ValueFields == {"commute_value", "no2_value", "x_bin", "y_bin", "group"}

\* the units whose field f is created or changed by the step; a step that
\* changes the number of rows creates its fields in every row
WrittenRows(f) ==
    {r \in 1..Len(kreise') :
        /\ f \in DOMAIN kreise'[r]
        /\ \/ Len(kreise') # Len(kreise)
           \/ f \notin DOMAIN kreise[r]
           \/ kreise'[r][f] # kreise[r][f]}

\* C19 as stated: each field of each unit is created and changed by one
\* stage only: commute_value by the merge of step 5, no2_value by the
\* aggregation of step 6, the bins and the group by the classification.
C19_Original ==
    [][\A f \in ValueFields :
          WrittenRows(f) # {} =>
              CASE f = "commute_value" -> pc = "loaded"
                [] f = "no2_value" -> pc = "merged"
                [] OTHER -> pc = "interpolated"]_vars

\* C19: commute_value is written by the merge of step 5 only, the bins and
\* the group by the classification only; no2_value is written for every
\* unit by the aggregation of step 6 and once more by the interpolation
\* loop, for units whose no2_value is NaN only.
C19_OneWriterButNo2 ==
    [][\A f \in ValueFields :
          WrittenRows(f) # {} =>
              CASE f = "commute_value" -> pc = "loaded"
                [] f = "no2_value" ->
                     \/ pc = "merged"
                     \/ /\ pc = "idw"
                        /\ \A r \in WrittenRows(f) : kreise[r].no2_value = NaN
                [] OTHER -> pc = "interpolated"]_vars

\* a classified table in which one unit has its no2_value from the
\* aggregation and another from the interpolation loop
C19_Witness ==
    /\ pc = "classified"
    /\ \E a, b \in 1..Len(kreise) :
          /\ a \in MissingAfterAggregation /\ kreise[a].no2_value # NaN
          /\ b \notin MissingAfterAggregation
          /\ kreise[a].group # None /\ kreise[b].group # None

\* the loop run over the indices in the given order
RECURSIVE RunOrder(_, _, _)
RunOrder(table, order, reference) ==
    IF order = <<>> THEN table
    ELSE RunOrder(interpolate_row(table, Head(order), reference),
                  Tail(order), reference)

\* kreise as the aggregation left it
TableAfterAggregation ==
    [r \in 1..Len(kreise) |-> [kreise[r] EXCEPT !.no2_value = DirectValue(r)]]

\* the table after the units of S have been visited in the order of the table
VisitedInTableOrder(S) ==
    RunOrder(TableAfterAggregation,
             SelectSeq([i \in 1..Len(kreise) |-> i], LAMBDA i : i \in S),
             dropna(stations, "no2_value"))

\* C20: while and after the loop runs, the reference set is the set of
\* loaded stations with a value; every unit the loop has visited carries the
\* estimate from its own representative point and that set; and the order
\* of the visits does not matter: whichever units have been visited,
\* visiting any further one, earlier or later in the table, gives the table
\* that visiting them all in the order of the table gives, so that every
\* order ends in the table the code's loop ends in.
C20_OrderIndependent ==
    /\ pc \in {"idw", "interpolated"} =>
          stations_with_data = dropna(stations, "no2_value")
    /\ pc = "idw" =>
          \A r \in MissingAfterAggregation :
              (\A t \in 1..Len(todo) : todo[t] # r) =>
                  kreise[r].no2_value = EstimateAt(r)
    /\ (pc = "interpolated" /\ Len(stations_with_data) > 0) =>
          /\ VisitedInTableOrder(MissingAfterAggregation) = kreise
          /\ \A S \in SUBSET MissingAfterAggregation :
                \A r \in MissingAfterAggregation \ S :
                    interpolate_row(VisitedInTableOrder(S), r,
                                    dropna(stations, "no2_value"))
                        = VisitedInTableOrder(S \cup {r})

\* after the loop: two units it visited that carry different estimates
C20_Witness ==
    /\ pc = "interpolated"
    /\ \E a, b \in MissingAfterAggregation :
          /\ kreise[a].no2_value # NaN /\ kreise[b].no2_value # NaN
          /\ kreise[a].no2_value # kreise[b].no2_value


\* ------------------------------------------- the three-region scenario
\* the run has classified
Classified == pc \in {"classified", "exported"}

\* the rows of kreise that carry a joint category
WithGroup == {i \in 1..Len(kreise) : kreise[i].group # None}

\* the stations within MAX_KM of the representative point of row i
StationsInReach(i) ==
    {s \in 1..Len(stations) :
        Abs(stations[s].pos - representative_point(kreise[i].geometry)) < MAX_KM * Km}

\* C24 as stated: in the scenario A gets 15, B a value of about 30 (here:
\* not farther than 1 from 30), C stays without a value, and two of the
\* three regions carry a joint category.
C24_Original ==
    Classified =>
        /\ kreise[1].no2_value = RInt(15)
        /\ RLe(RInt(29), kreise[2].no2_value) /\ RLe(kreise[2].no2_value, RInt(31))
        /\ isna(kreise[3].no2_value)
        /\ Cardinality(WithGroup) = 2

\* C24, amended: A gets 15, C stays without a value, two regions carry a
\* joint category; B gets 30 when the station 5 km away is the only one
\* within MAX_KM of its representative point, and otherwise a value strictly
\* between 10 and 30, pulled towards the values of the stations inside A.
C24_ScenarioWithReach ==
    Classified =>
        /\ kreise[1].no2_value = RInt(15)
        /\ IF StationsInReach(2) = {3}
           THEN kreise[2].no2_value = RInt(30)
           ELSE RLt(RInt(10), kreise[2].no2_value) /\ RLt(kreise[2].no2_value, RInt(29))
        /\ isna(kreise[3].no2_value)
        /\ WithGroup = {1, 2}

\* B far from A: its only station in reach is the one 5 km away
C24_Witness ==
    /\ pc = "exported"
    /\ Len(kreise) = 3
    /\ StationsInReach(2) = {3}
    /\ StationsInReach(3) = {}
    /\ kreise[2].no2_value = RInt(30)


\* ----------------------------------------------- one run: how it can end
\* main has printed a line of that text
Printed(msg) == \E i \in 1..Len(stdout) : stdout[i].msg = msg

\* main has printed that line with these values
PrintedWith(msg, arg) ==
    \E i \in 1..Len(stdout) : stdout[i].msg = msg /\ stdout[i].arg = arg

\* step 1 has run and has left kreise
BoundariesDone ==
    pc # "start" /\ ~Printed("ERROR: Could not find AGS/RS column in boundaries")

\* step 2 has run
CommutingDone == BoundariesDone /\ pc # "boundaries_loaded"

\* steps 3 and 4 have run, to their end or to an exit
UbaDone == CommutingDone /\ pc # "comm_loaded"

\* the boundary file has no column of a name main looks for
NoIdColumn ==
    bd_code_name \notin {"AGS5", "ags", "rs", "AGS", "KREISE", "KREIS", "RS"}

\* the Pendler file has no year column
NoYearColumn ==
    cm_source = "pendler" /\ year_col_found(renamed_columns(cm_columns)) = no_column

\* the API answers with the usual table of stations, and annual balances
\* that have columns
AbRead == uba_up /\ uba_st = UsualSt /\ uba_ab.columns # <<>>

NoValueColumn == AbRead /\ value_named(uba_ab.columns) = no_column

NoStationIdColumn == AbRead /\ station_id_named(uba_ab.columns) = no_column

\* C23 as stated: an input without its expected column ends the run with
\* the available columns printed; the run goes no further with it.
C23_Original ==
    /\ (NoIdColumn /\ pc # "start") =>
           /\ pc = "exit"
           /\ PrintedWith("Available columns", boundary_columns(bd_code_name, bd_has_art))
    /\ (NoYearColumn /\ CommutingDone) =>
           /\ pc = "exit"
           /\ PrintedWith("Available columns", cm_columns)
    /\ ((NoValueColumn \/ NoStationIdColumn) /\ UbaDone) =>
           /\ pc = "exit"
           /\ PrintedWith("WARNING: Could not identify value column. Available",
                          uba_ab.columns)

\* C23, amended: a boundary file without a column of codes ends the run
\* with its columns printed.  A Pendler file without a year column is read
\* from its last column, with a warning.  Annual balances without a column
\* named like a value are read from their first numeric column and end the
\* run, with their columns printed, only when no column is numeric; without
\* a column named like a station id their first column is the station id.
\* A table of stations without "station id" ends the run.
C23_FatalOnlyWithoutFallback ==
    /\ (NoIdColumn /\ pc # "start") =>
           /\ pc = "exit"
           /\ stdout = <<printed("ERROR: Could not find AGS/RS column in boundaries", <<>>),
                         printed("Available columns",
                                 boundary_columns(bd_code_name, bd_has_art))>>
    /\ (~NoIdColumn /\ pc # "start") => BoundariesDone
    /\ (NoYearColumn /\ CommutingDone) =>
           /\ Printed("WARNING: Could not find year, using last available year column")
           /\ Len(comm) = Len(cm_raw)
           /\ \A i \in 1..Len(comm) : comm[i].commute_value = to_numeric(cm_raw[i].value)
    /\ (NoValueColumn /\ UbaDone) =>
           IF uba_ab.numeric = {}
           THEN /\ pc = "exit"
                /\ PrintedWith("WARNING: Could not identify value column. Available",
                               uba_ab.columns)
           ELSE /\ pc # "exit"
                /\ \A i \in 1..Len(stations) : \E r \in 1..Len(uba_ab.rows) :
                       stations[i].no2_value =
                           uba_ab.rows[r][CHOOSE c \in uba_ab.numeric :
                                              \A d \in uba_ab.numeric : c <= d]
    /\ (uba_up /\ ~has_column(uba_st.columns, chars("station id")) /\ UbaDone) => pc = "exit"
    /\ (NoStationIdColumn /\ ~NoValueColumn /\ UbaDone) =>
           /\ pc # "exit"
           /\ \A i \in 1..Len(stations) : \E r \in 1..Len(uba_ab.rows) :
                  /\ uba_ab.rows[r][1] = uba_st.rows[i].id
                  /\ stations[i].no2_value =
                         uba_ab.rows[r][column_index(uba_ab.columns,
                                                     value_named(uba_ab.columns))]

\* a boundary file whose codes stand under "gen": the run has ended with
\* the columns printed
C23_Witness ==
    /\ bd_code_name = "gen"
    /\ pc = "exit"
    /\ PrintedWith("Available columns", <<"gen", "art", "geometry">>)


\* the run has ended in steps 3 and 4
UbaExit ==
    \/ Printed("ERROR fetching UBA data")
    \/ Printed("ERROR: No stations found for Bavaria network")
    \/ Printed("WARNING: Could not identify value column. Available")

\* annual balances that hold no value for a station of the network
NoBalanceOfNetwork ==
    /\ uba_up /\ uba_st = UsualSt /\ uba_ab.columns = UsualAb.columns
    /\ \A r \in 1..Len(uba_ab.rows) : \A i \in 1..Len(uba_st.rows) :
           uba_ab.rows[r][1] # uba_st.rows[i].id

\* C21 as stated: without a commuting file, and without air-quality data
\* (the API does not answer, or it holds no value for the network), the run
\* does not end before the export; the commuting values are made up for
\* every region and their number is printed.
C21_Original ==
    /\ (cm_source = "dummy" /\ CommutingDone) =>
           /\ Len(comm) = Len(kreise)
           /\ PrintedWith("Loaded commuting data for units", <<Len(kreise)>>)
    /\ (BoundariesDone /\ cm_source = "dummy" /\ uba_st = UsualSt /\ uba_ab = UsualAb) =>
           pc # "exit"
    /\ (BoundariesDone /\ ~uba_up) => pc # "exit"
    /\ (BoundariesDone /\ NoBalanceOfNetwork) => pc # "exit"

\* C21, amended: without a commuting file the run goes on with a made-up
\* value for every region and prints a warning and their number; it then
\* ends early only for a reason of steps 3 and 4.  When the API does not
\* answer, the run ends in step 3 with an error and exports nothing.  When
\* the API holds no value for a station of the network, the run goes on,
\* prints that 0 stations have values, and every region is left without a
\* pollutant value.
C21_OnlyCommutingFallsBack ==
    /\ (cm_source = "dummy" /\ CommutingDone) =>
           /\ Len(comm) = Len(kreise)
           /\ \A i \in 1..Len(comm) :
                  /\ comm[i].AGS5 = kreise[i].AGS5
                  /\ comm[i].commute_value \in DummyValues
           /\ Printed("WARNING: Commuting data not found")
           /\ PrintedWith("Loaded commuting data for units", <<Len(kreise)>>)
           /\ pc = "exit" => UbaExit
    /\ (BoundariesDone /\ cm_source = "dummy" /\ uba_up
            /\ uba_st = UsualSt /\ uba_ab = UsualAb) => pc # "exit"
    /\ (UbaDone /\ ~uba_up) =>
           /\ pc = "exit"
           /\ Printed("ERROR fetching UBA data")
           /\ stations = <<>> /\ bayern = <<>> /\ oberpfalz = <<>>
    /\ (UbaDone /\ NoBalanceOfNetwork) =>
           /\ pc # "exit"
           /\ PrintedWith("stations have NO2 values", <<0>>)
           /\ \A i \in 1..Len(stations) : isna(stations[i].no2_value)
           /\ pc \in {"aggregated", "interpolated", "classified", "exported"} =>
                  \A i \in 1..Len(kreise) : isna(kreise[i].no2_value)

\* a run without a commuting file that has exported: every region carries
\* a made-up commute value
C21_Witness ==
    /\ cm_source = "dummy"
    /\ pc = "exported"
    /\ Len(bayern) = 2
    /\ \A i \in 1..Len(bayern) : bayern[i].commute_value \in DummyValues
    /\ PrintedWith("Loaded commuting data for units", <<2>>)


\* C22 as stated: a run in which no region gets a commute value, or no
\* region gets a pollutant value, ends before the export; what is
\* classified and exported has each of the two fields for some region.
C22_Original ==
    pc \in {"classified", "exported"} =>
        /\ \E i \in 1..Len(kreise) : ~isna(kreise[i].commute_value)
        /\ \E i \in 1..Len(kreise) : ~isna(kreise[i].no2_value)

====
